---- MODULE Spec2Model ----
(***************************************************************************)
(* A model of the framing and response-aggregation code of isabelle-client.*)
(*                                                                         *)
(* Two snapshots of the protocol engine live in the repository:            *)
(*   - src/isabelle_client/socket_communication.py: frames with a string   *)
(*     kind, and an auth-gated generator get_final_message;                *)
(*   - src/src/isabelle_client/{socket_communication,data_models,          *)
(*     isabelle_client}.py: frames with an enumerated kind and a JSON      *)
(*     body, an ungated generator, and IsabelleClient.execute_command      *)
(*     that reads the first frame itself.                                  *)
(*                                                                         *)
(* The wire is modelled byte by byte: a stream is a sequence of            *)
(* one-character strings, and the readers are translated from the code's   *)
(* readline / readexactly / regular-expression steps.                      *)
(***************************************************************************)
EXTENDS Integers, Sequences, FiniteSets, TLC

(***************************************************************************)
(* Bounds of the model.                                                    *)
(***************************************************************************)
\* the number of wire items of a stream of well-formed lines
MaxFrames == 4
\* the number of wire items of a stream that has odd items
MaxOdd == 2
\* the number of characters of the body of a wire item
MaxBody == 3

(***************************************************************************)
(* Characters.                                                             *)
(***************************************************************************)
NL == "\n"
SP == " "
QUOTE == "\""

Digit == {"0", "1", "2", "3", "4", "5", "6", "7", "8", "9"}

Letter == {"A", "D", "E", "F", "H", "I", "K", "L", "N", "O", "R", "S", "T", "X"}

\* the characters the pattern \w matches (of the model's alphabet)
WordChar == Letter \cup Digit \cup {"_"}

\* the characters the pattern . matches: everything but a line terminator
DotChar(c) == c # NL

DigitValue(c) ==
    CASE c = "0" -> 0 [] c = "1" -> 1 [] c = "2" -> 2 [] c = "3" -> 3
      [] c = "4" -> 4 [] c = "5" -> 5 [] c = "6" -> 6 [] c = "7" -> 7
      [] c = "8" -> 8 [] c = "9" -> 9

DigitChar(d) ==
    CASE d = 0 -> "0" [] d = 1 -> "1" [] d = 2 -> "2" [] d = 3 -> "3"
      [] d = 4 -> "4" [] d = 5 -> "5" [] d = 6 -> "6" [] d = 7 -> "7"
      [] d = 8 -> "8" [] d = 9 -> "9"

\* int(text) of a run of decimal digits
RECURSIVE ParseInt(_)
ParseInt(ds) ==
    IF ds = <<>> THEN 0
    ELSE 10 * ParseInt(SubSeq(ds, 1, Len(ds) - 1)) + DigitValue(ds[Len(ds)])

\* str(n) of a natural number
RECURSIVE FormatInt(_)
FormatInt(n) ==
    IF n < 10 THEN <<DigitChar(n)>>
    ELSE FormatInt(n \div 10) \o <<DigitChar(n % 10)>>

\* the length of the longest run of characters of C that starts at s[i]
RECURSIVE RunLen(_, _, _)
RunLen(s, i, C) ==
    IF i <= Len(s) /\ s[i] \in C THEN 1 + RunLen(s, i + 1, C) ELSE 0

\* the length of the longest run of characters matched by . from s[i]
RECURSIVE DotLen(_, _)
DotLen(s, i) ==
    IF i <= Len(s) /\ DotChar(s[i]) THEN 1 + DotLen(s, i + 1) ELSE 0

(***************************************************************************)
(* Response kinds (words on the wire).                                     *)
(***************************************************************************)
OK == <<"O", "K">>
FINISHED == <<"F", "I", "N", "I", "S", "H", "E", "D">>
NOTE == <<"N", "O", "T", "E">>
FAILED == <<"F", "A", "I", "L", "E", "D">>
ERROR == <<"E", "R", "R", "O", "R">>

\* response_length of a frame that had no length line
None == -1

\* IsabelleResponse(response_type, response_body, response_length)
IsabelleResponse(type, body, length) ==
    [response_type |-> type, response_body |-> body, response_length |-> length]

\* a rendering that leaves the length line out
ResponseStr_NoLength(r) ==
    r.response_type
    \o (IF r.response_body # <<>> THEN <<SP>> ELSE <<>>)
    \o r.response_body

\* IsabelleResponse.__str__ of the string-kind snapshot
ResponseStr(r) ==
    (IF r.response_length # None
        THEN FormatInt(r.response_length) \o <<NL>> ELSE <<>>)
    \o r.response_type
    \o (IF r.response_body # <<>> THEN <<SP>> ELSE <<>>)
    \o r.response_body

(***************************************************************************)
(* asyncio.StreamReader over a stream s of which p bytes are consumed;     *)
(* eof tells whether the peer has closed the stream after its last byte.   *)
(* A read that can neither be served nor fail is not ready (it suspends).  *)
(***************************************************************************)
readline(s, p, eof) ==
    LET n == DotLen(s, p + 1)
    IN  IF p + n < Len(s)
        THEN [ready |-> TRUE, data |-> SubSeq(s, p + 1, p + n + 1), pos |-> p + n + 1]
        ELSE IF eof
        THEN [ready |-> TRUE, data |-> SubSeq(s, p + 1, Len(s)), pos |-> Len(s)]
        ELSE [ready |-> FALSE, data |-> <<>>, pos |-> p]

\* a read of n bytes that also takes the line terminator after them
readexactly_Terminated(s, p, n, eof) ==
    LET t == IF p + n < Len(s) /\ s[p + n + 1] = NL THEN 1 ELSE 0
    IN  IF p + n <= Len(s)
        THEN [ready |-> TRUE, complete |-> TRUE, data |-> SubSeq(s, p + 1, p + n),
              pos |-> p + n + t]
        ELSE IF eof
        THEN [ready |-> TRUE, complete |-> FALSE, data |-> SubSeq(s, p + 1, Len(s)),
              pos |-> Len(s)]
        ELSE [ready |-> FALSE, complete |-> FALSE, data |-> <<>>, pos |-> p]

readexactly(s, p, n, eof) ==
    IF p + n <= Len(s)
    THEN [ready |-> TRUE, complete |-> TRUE, data |-> SubSeq(s, p + 1, p + n), pos |-> p + n]
    ELSE IF eof
    THEN [ready |-> TRUE, complete |-> FALSE, data |-> SubSeq(s, p + 1, Len(s)), pos |-> Len(s)]
    ELSE [ready |-> FALSE, complete |-> FALSE, data |-> <<>>, pos |-> p]

(***************************************************************************)
(* The two regular expressions of get_response_from_isabelle.              *)
(***************************************************************************)
\* a pattern without the line terminator: r"(\d+)"
LengthMatch_Prefix(response) == SubSeq(response, 1, RunLen(response, 1, Digit))

\* re.compile(r"(\d+)\n").match(response): the digits of group 1, or <<>>
\* when there is no match
LengthMatch(response) ==
    LET d == RunLen(response, 1, Digit)
    IN  IF d >= 1 /\ d < Len(response) /\ response[d + 1] = NL
        THEN SubSeq(response, 1, d) ELSE <<>>

\* a pattern that takes every space after the kind: "(\\w+) *(.*)"
FrameMatch_Spaces(response) ==
    LET w == RunLen(response, 1, WordChar)
        b == w + RunLen(response, w + 1, {SP}) + 1
    IN  [matched |-> w >= 1,
         group1 |-> SubSeq(response, 1, w),
         group2 |-> SubSeq(response, b, b + DotLen(response, b) - 1)]

\* a pattern that empty content matches too: "(\\w*) ?(.*)"
FrameMatch_Empty(response) ==
    LET w == RunLen(response, 1, WordChar)
        b == IF w < Len(response) /\ response[w + 1] = SP THEN w + 2 ELSE w + 1
    IN  [matched |-> TRUE,
         group1 |-> SubSeq(response, 1, w),
         group2 |-> SubSeq(response, b, b + DotLen(response, b) - 1)]

\* re.compile("(\\w+) ?(.*)").match(response)
FrameMatch(response) ==
    LET w == RunLen(response, 1, WordChar)
        b == IF w < Len(response) /\ response[w + 1] = SP THEN w + 2 ELSE w + 1
    IN  [matched |-> w >= 1,
         group1 |-> SubSeq(response, 1, w),
         group2 |-> SubSeq(response, b, b + DotLen(response, b) - 1)]

NoResponse == IsabelleResponse(<<>>, <<>>, None)

\* exceptions: the class, and the message as the text chunks it is built of
NoError == [exc |-> "", message |-> <<>>]

\* a message that carries the content without its line terminator
UnexpectedResponse_Stripped(response) ==
    [exc |-> "ValueError",
     message |-> <<"Unexpected response from Isabelle: ">>
                 \o SubSeq(response, 1, DotLen(response, 1))]

\* ValueError(f"Unexpected response from Isabelle: {response}")
UnexpectedResponse(response) ==
    [exc |-> "ValueError",
     message |-> <<"Unexpected response from Isabelle: ">> \o response]

\* asyncio.IncompleteReadError(partial, expected), raised by readexactly
IncompleteReadError(partial, expected) ==
    [exc |-> "IncompleteReadError",
     message |-> FormatInt(Len(partial)) \o <<" bytes read on a total of ">>
                 \o FormatInt(expected) \o <<" expected bytes">>]

\* a reader that tests the length with `if length:`, so that a declared
\* length of 0 counts as no length
get_response_from_isabelle_Truthy(s, p, eof) ==
    LET line   == readline(s, p, eof)
        digits == LengthMatch(line.data)
        length == IF digits # <<>> /\ ParseInt(digits) # 0
                  THEN ParseInt(digits) ELSE None
        exact  == readexactly(s, line.pos, IF length # None THEN length ELSE 0, eof)
        response == IF length # None THEN exact.data ELSE line.data
        pos    == IF length # None THEN exact.pos ELSE line.pos
        match  == FrameMatch(response)
    IN  IF ~line.ready \/ (length # None /\ ~exact.ready)
        THEN [outcome |-> "suspended", error |-> NoError,
              response |-> NoResponse, pos |-> p]
        ELSE IF length # None /\ ~exact.complete
        THEN [outcome |-> "raise", error |-> IncompleteReadError(exact.data, length),
              response |-> NoResponse, pos |-> pos]
        ELSE IF ~match.matched
        THEN [outcome |-> "raise", error |-> UnexpectedResponse(response),
              response |-> NoResponse, pos |-> pos]
        ELSE [outcome |-> "return", error |-> NoError,
              response |-> IsabelleResponse(match.group1, match.group2, length),
              pos |-> pos]

\* get_response_from_isabelle of src/isabelle_client/socket_communication.py
get_response_from_isabelle(s, p, eof) ==
    LET line   == readline(s, p, eof)
        digits == LengthMatch(line.data)
        length == IF digits # <<>> THEN ParseInt(digits) ELSE None
        exact  == readexactly(s, line.pos, IF length # None THEN length ELSE 0, eof)
        response == IF length # None THEN exact.data ELSE line.data
        pos    == IF length # None THEN exact.pos ELSE line.pos
        match  == FrameMatch(response)
    IN  IF ~line.ready \/ (length # None /\ ~exact.ready)
        THEN [outcome |-> "suspended", error |-> NoError,
              response |-> NoResponse, pos |-> p]
        ELSE IF length # None /\ ~exact.complete
        THEN [outcome |-> "raise", error |-> IncompleteReadError(exact.data, length),
              response |-> NoResponse, pos |-> pos]
        ELSE IF ~match.matched
        THEN [outcome |-> "raise", error |-> UnexpectedResponse(response),
              response |-> NoResponse, pos |-> pos]
        ELSE [outcome |-> "return", error |-> NoError,
              response |-> IsabelleResponse(match.group1, match.group2, length),
              pos |-> pos]

(***************************************************************************)
(* The typed snapshot: src/src/isabelle_client/data_models.py.             *)
(***************************************************************************)
\* IsabelleResponseType: the values of the enumeration
\* an enumeration with one more member
IsabelleResponseType_Open == {OK, FINISHED, NOTE, FAILED, ERROR, <<"X">>}

IsabelleResponseType == {OK, FINISHED, NOTE, FAILED, ERROR}

ASYNCHRONOUS_FINAL_MESSAGES == {FAILED, FINISHED, ERROR}

SYNCHRONOUS_FINAL_MESSAGES == {OK, ERROR}

\* the values json.loads returns on the model's alphabet: strings, integers
\* and floats with an integral value (a number written with an exponent)
JsonStr(text) == [type |-> "str", text |-> text, num |-> 0]
JsonInt(n) == [type |-> "int", text |-> <<>>, num |-> n]
JsonFloat(n) == [type |-> "float", text |-> <<>>, num |-> n]

RECURSIVE Pow10(_)
Pow10(e) == IF e = 0 THEN 1 ELSE 10 * Pow10(e - 1)

JsonWhitespace == {SP, NL}

JSONDecodeError(msg) == [exc |-> "JSONDecodeError", message |-> <<msg>>]

\* json.loads(text): [ok, value, error]
JsonLoads(text) ==
    LET i == RunLen(text, 1, JsonWhitespace) + 1
        fail(msg) == [ok |-> FALSE, value |-> JsonStr(<<>>), error |-> JSONDecodeError(msg)]
        done(v, e) ==
            IF e + RunLen(text, e + 1, JsonWhitespace) = Len(text)
            THEN [ok |-> TRUE, value |-> v, error |-> NoError]
            ELSE fail("Extra data")
    IN  IF i > Len(text) THEN fail("Expecting value")
        ELSE IF text[i] = QUOTE
        THEN LET n == RunLen(text, i + 1, (WordChar \cup {SP, "#", "!"}))
             IN  IF i + n + 1 > Len(text) THEN fail("Unterminated string starting at")
                 ELSE IF text[i + n + 1] # QUOTE THEN fail("Invalid control character at")
                 ELSE done(JsonStr(SubSeq(text, i + 1, i + n)), i + n + 1)
        ELSE IF text[i] \in Digit
        THEN LET d == IF text[i] = "0" THEN 1 ELSE RunLen(text, i, Digit)
                 x == IF i + d <= Len(text) /\ text[i + d] = "E"
                      THEN RunLen(text, i + d + 1, Digit) ELSE 0
                 m == ParseInt(SubSeq(text, i, i + d - 1))
             IN  IF x = 0 THEN done(JsonInt(m), i + d - 1)
                 ELSE done(JsonFloat(m * Pow10(ParseInt(SubSeq(text, i + d + 1, i + d + x)))),
                           i + d + x)
        ELSE fail("Expecting value")

\* json.dumps(value)
JsonDumps(v) ==
    CASE v.type = "str" -> <<QUOTE>> \o v.text \o <<QUOTE>>
      [] v.type = "int" -> FormatInt(v.num)
      [] v.type = "float" -> FormatInt(v.num) \o <<".", "0">>

\* bool(value)
Truthy(v) == IF v.type = "str" THEN v.text # <<>> ELSE v.num # 0

\* IsabelleResponse.__str__ of data_models.py
TypedResponseStr(r) ==
    (IF r.response_length # None
        THEN FormatInt(r.response_length) \o <<NL>> ELSE <<>>)
    \o r.response_type
    \o (IF Truthy(r.response_body) THEN <<SP>> ELSE <<>>)
    \o JsonDumps(r.response_body)

NoTypedResponse == IsabelleResponse(<<>>, JsonStr(<<>>), None)

\* ValueError raised by IsabelleResponseType(word)
NotAResponseType(word) ==
    [exc |-> "ValueError",
     message |-> <<"'">> \o word \o <<"' is not a valid IsabelleResponseType">>]

(***************************************************************************)
(* get_response_from_isabelle of                                           *)
(* src/src/isabelle_client/socket_communication.py                         *)
(***************************************************************************)
typed_get_response_from_isabelle(s, p, eof) ==
    LET line   == readline(s, p, eof)
        digits == LengthMatch(line.data)
        length == IF digits # <<>> THEN ParseInt(digits) ELSE None
        exact  == readexactly(s, line.pos, IF length # None THEN length ELSE 0, eof)
        response == IF length # None THEN exact.data ELSE line.data
        pos    == IF length # None THEN exact.pos ELSE line.pos
        match  == FrameMatch(response)
        body   == IF match.group2 # <<>> THEN JsonLoads(match.group2)
                  ELSE [ok |-> TRUE, value |-> JsonStr(<<>>), error |-> NoError]
    IN  IF ~line.ready \/ (length # None /\ ~exact.ready)
        THEN [outcome |-> "suspended", error |-> NoError,
              response |-> NoTypedResponse, pos |-> p]
        ELSE IF length # None /\ ~exact.complete
        THEN [outcome |-> "raise", error |-> IncompleteReadError(exact.data, length),
              response |-> NoTypedResponse, pos |-> pos]
        ELSE IF ~match.matched
        THEN [outcome |-> "raise", error |-> UnexpectedResponse(response),
              response |-> NoTypedResponse, pos |-> pos]
        ELSE IF match.group1 \notin IsabelleResponseType
        THEN [outcome |-> "raise", error |-> NotAResponseType(match.group1),
              response |-> NoTypedResponse, pos |-> pos]
        ELSE IF ~body.ok
        THEN [outcome |-> "raise", error |-> body.error,
              response |-> NoTypedResponse, pos |-> pos]
        ELSE [outcome |-> "return", error |-> NoError,
              response |-> IsabelleResponse(match.group1, body.value, length),
              pos |-> pos]

(***************************************************************************)
(* What a server may put on the wire (the inputs of the model).            *)
(***************************************************************************)
\* a newline-terminated frame, as the servers of conftest.py send it
Line(kind, body) ==
    kind \o (IF body # <<>> THEN <<SP>> \o body ELSE <<>>) \o <<NL>>

\* a length line followed by the payload, as the servers of conftest.py send it
Prefixed(payload) == FormatInt(Len(payload)) \o <<NL>> \o payload

Bang == <<"#", SP, "!", "!", "!">>

\* well-formed newline-terminated frames
PlainItems ==
    { Line(OK, <<>>), Line(NOTE, <<>>), Line(FINISHED, <<>>), Line(ERROR, <<"X">>) }

\* frames with a length line or a quoted body, an unknown kind, malformed
\* content, a lone length line, a line cut before its terminator
OddItems ==
    { Line(OK, <<>>), Line(FINISHED, <<>>), Line(FAILED, <<>>),
      Prefixed(FINISHED \o <<SP, "1", NL, "2">>),
      Line(NOTE, <<QUOTE, "X", QUOTE>>), Line(<<"X">>, <<>>),
      Prefixed(Bang), Bang \o <<NL>>, <<"9", NL>>, NOTE }

RECURSIVE Concat(_)
Concat(items) ==
    IF items = <<>> THEN <<>> ELSE Head(items) \o Concat(Tail(items))

SeqsUpTo(S, n) == UNION { [1..k -> S] : k \in 0..n }

\* an acknowledgement, n notifications and a frame of a final kind
Notifications(n, last) ==
    Line(OK, <<>>) \o Concat([i \in 1..n |-> Line(NOTE, <<>>)]) \o last

NotifiedStreams ==
    { Notifications(n, last) :
        n \in 0..(MaxFrames - 2),
        last \in {Line(FINISHED, <<>>), Line(FAILED, <<>>), Line(ERROR, <<"X">>)} }

Streams ==
    { Concat(items) : items \in SeqsUpTo(PlainItems, MaxFrames)
                                \cup SeqsUpTo(OddItems, MaxOdd) }
    \cup NotifiedStreams

FinalSets ==
    { {FINISHED}, {OK}, {OK, ERROR}, {FINISHED, FAILED, ERROR} }

\* the calls of execute_command the model follows
Calls == {1, 2}

\* the password of the client, as in the doctests
Password == "test_password"

Commands == {"help", "session_start"}

NoList == [returned |-> FALSE, list |-> <<>>]

\* the address and the port of the client, as in the doctests
address == "localhost"

port == 9999

\* a call that holds no connection
NoWriter == 0

\* the connection that asyncio.open_connection(host, p) makes for call c
Connection(host, p, c) ==
    [host |-> host, port |-> p, opener |-> c, written |-> <<>>, closed |-> FALSE]

\* a client that keeps one connection and hands it to every call
open_connection_Pooled(conns, host, p, c) ==
    IF conns # <<>>
    THEN [connections |-> conns, writer |-> 1]
    ELSE [connections |-> <<Connection(host, p, c)>>, writer |-> 1]

\* reader, writer = await asyncio.open_connection(self.address, self.port):
\* a new connection, and the call's handle on it
open_connection(conns, host, p, c) ==
    [connections |-> Append(conns, Connection(host, p, c)),
     writer |-> Len(conns) + 1]

\* a write that sends the data twice
Write_Twice(conns, k, data) ==
    [conns EXCEPT ![k].written = Append(Append(@, data), data)]

\* writer.write(data) on connection k
Write(conns, k, data) ==
    [conns EXCEPT ![k].written = Append(@, data)]

\* the argument given for asynchronous: none, True or False
Given == { <<>>, <<TRUE>>, <<FALSE>> }

\* the parameter asynchronous: bool = True, bound to what the caller gives
Bind(given) == IF given = <<>> THEN TRUE ELSE given[1]

\* a call of execute_command(command, asynchronous) that has not begun,
\* with the bytes its connection will receive
NewCall(pc, command, given, s, e) ==
    [pc |-> pc, command |-> command, given |-> given,
     asynchronous |-> Bind(given),
     final_message |-> {}, writer |-> NoWriter,
     stream |-> s, eof |-> e, pos |-> 0, reads |-> 0,
     password_ok |-> NoTypedResponse, response |-> NoTypedResponse,
     messages |-> <<>>, result |-> NoList, error |-> NoError]

IdleCall == NewCall("idle", "", <<>>, <<>>, FALSE)

(***************************************************************************)
(* State.                                                                  *)
(***************************************************************************)
VARIABLES
    stream,                \* the bytes the server sends on the connection
    eof,                   \* the server closes the connection after them
    pos,                   \* the number of bytes the reader has consumed
    reads,                 \* the number of get_response_from_isabelle calls
    final_message,         \* get_final_message: the final_message argument
    logger,                \* get_final_message: logger is not None
    response,              \* get_final_message: the local response
    password_ok_received,  \* get_final_message: the local flag
    gen,                   \* the generator: "created", "yielded", "done", "raised"
    yielded,               \* the frames yielded so far
    log,                   \* the calls of logger.info
    error,                 \* the exception that left the generator
    calls,                 \* IsabelleClient.execute_command: the state of each call
    self_logger,           \* IsabelleClient: self.logger is not None
    client_log,            \* IsabelleClient: the calls of self.logger.info
    connections,           \* the connections opened so far, in order
    snapshot,              \* a reader on its own: "string" or "typed"
    sent,                  \* what the server has put on the wire for it
    reader,                \* the StreamReader: stream, eof, pos
    result,                \* the latest call of get_response_from_isabelle
    method                 \* a call of session_start or use_theories

gen_vars == <<stream, eof, pos, reads, final_message, logger, response,
              password_ok_received, gen, yielded, log, error>>

client_vars == <<calls, self_logger, client_log, connections>>

reader_vars == <<snapshot, sent, reader, result>>

method_vars == <<method>>

vars == <<gen_vars, client_vars, reader_vars, method_vars>>

\* a wire item: a frame of a kind and a body in one of the forms, and the
\* bytes that follow it
Item(form, kind, body, rest) ==
    [form |-> form, kind |-> kind, body |-> body, rest |-> rest]

NoItem == Item("", <<>>, <<>>, <<>>)

\* no call of the reader yet
NoCall == [start |-> 0, outcome |-> "", response |-> NoResponse, error |-> NoError]

\* use_theories called with session_id=None
NoSession == ""

\* the clients: IsabelleClient of src/isabelle_client/isabelle__client.py,
\* IsabelleClient of src/src/isabelle_client/isabelle_client.py, and
\* IsabelleConnector of src/src/isabelle_client/isabelle_connector.py
AsyncioClient == "isabelle__client"

TypedClient == "isabelle_client"

Connector == "isabelle_connector"

\* a call of the method op of IsabelleClient with the argument session_id,
\* at the point pc
Method(op, session_id, pc) ==
    [client |-> AsyncioClient,
     op |-> op, session_id |-> session_id, pc |-> pc, issued |-> <<>>,
     new_session_id |-> NoSession, response |-> NoResponse,
     returned |-> FALSE, value |-> NoSession,
     error |-> [exc |-> "", message |-> <<>>, by |-> ""]]

\* no method is called
IdleMethod == method = Method("", NoSession, "idle")

\* a call of the method op of a client
MethodOf(client, op, session_id, pc) ==
    [Method(op, session_id, pc) EXCEPT !.client = client]

\* no reader is read on its own
IdleReader ==
    /\ snapshot = ""
    /\ sent = NoItem
    /\ reader = [stream |-> <<>>, eof |-> FALSE, pos |-> 0]
    /\ result = NoCall

Init ==
    /\ stream \in Streams
    /\ eof \in BOOLEAN
    /\ pos = 0
    /\ reads = 0
    /\ final_message \in FinalSets
    /\ logger \in BOOLEAN
    /\ response = IsabelleResponse(<<>>, <<>>, None)
    /\ password_ok_received = FALSE
    /\ gen = "created"
    /\ yielded = <<>>
    /\ log = <<>>
    /\ error = NoError
    /\ calls = [c \in Calls |-> IdleCall]
    /\ self_logger = FALSE
    /\ client_log = <<>>
    /\ connections = <<>>
    /\ IdleReader
    /\ IdleMethod

(***************************************************************************)
(* get_final_message of src/isabelle_client/socket_communication.py, one   *)
(* action per way a resumption (__anext__) of the generator can end.       *)
(***************************************************************************)
\* a loop that stops at any frame of a final kind
LoopCondition_Ungated(r, ok) == r.response_type \notin final_message

\* a loop that counts the frame just read as the acknowledgement
LoopCondition_Eager(r, ok) ==
    r.response_type \notin final_message \/ ~(ok \/ r.response_type = OK)

\* the condition of the while loop
LoopCondition(r, ok) == r.response_type \notin final_message \/ ~ok

\* a flag that is assigned the comparison itself
FlagAfter_Assigned(r, ok) == r.response_type = OK

\* a flag that is never set
FlagAfter_Never(r, ok) == ok

\* a flag that every frame of kind OK flips
FlagAfter_Toggle(r, ok) == IF r.response_type = OK THEN ~ok ELSE ok

\* the flag after the if statement that opens the loop body
FlagAfter(r, ok) == IF r.response_type = OK THEN TRUE ELSE ok

\* a yield that hands the frames over newest first
Yield_Newest(ys, r) == <<r>> \o ys

\* yield response: the frames the consumer has received
Yield(ys, r) == Append(ys, r)

Resumable == gen \in {"created", "yielded"}

\* the loop condition is false: the generator returns
GenStop ==
    /\ Resumable
    /\ ~LoopCondition(response, password_ok_received)
    /\ gen' = "done"
    /\ UNCHANGED <<stream, eof, pos, reads, final_message, logger, response,
                   password_ok_received, yielded, log, error>>
    /\ UNCHANGED <<client_vars, reader_vars, method_vars>>

\* one turn of the loop up to the yield
GenYield ==
    /\ Resumable
    /\ LoopCondition(response, password_ok_received)
    /\ LET got == get_response_from_isabelle(stream, pos, eof)
       IN  /\ got.outcome = "return"
           /\ password_ok_received' = FlagAfter(response, password_ok_received)
           /\ response' = got.response
           /\ pos' = got.pos
           /\ reads' = reads + 1
           /\ log' = IF logger THEN Append(log, ResponseStr(got.response)) ELSE log
           /\ yielded' = Yield(yielded, got.response)
           /\ gen' = "yielded"
    /\ UNCHANGED <<stream, eof, final_message, logger, error>>
    /\ UNCHANGED <<client_vars, reader_vars, method_vars>>

\* a loop that catches the error of a read and reads again
GenRaise_Retry ==
    /\ Resumable
    /\ LoopCondition(response, password_ok_received)
    /\ LET got == get_response_from_isabelle(stream, pos, eof)
       IN  /\ got.outcome = "raise"
           /\ got.pos > pos
           /\ password_ok_received' = FlagAfter(response, password_ok_received)
           /\ pos' = got.pos
           /\ reads' = reads + 1
    /\ UNCHANGED <<stream, eof, final_message, logger, response, yielded, log,
                   error, gen>>
    /\ UNCHANGED <<client_vars, reader_vars, method_vars>>

\* one turn of the loop in which get_response_from_isabelle raises
GenRaise ==
    /\ Resumable
    /\ LoopCondition(response, password_ok_received)
    /\ LET got == get_response_from_isabelle(stream, pos, eof)
       IN  /\ got.outcome = "raise"
           /\ password_ok_received' = FlagAfter(response, password_ok_received)
           /\ pos' = got.pos
           /\ reads' = reads + 1
           /\ error' = got.error
           /\ gen' = "raised"
    /\ UNCHANGED <<stream, eof, final_message, logger, response, yielded, log>>
    /\ UNCHANGED <<client_vars, reader_vars, method_vars>>

Next == GenStop \/ GenYield \/ GenRaise

Spec == Init /\ [][Next]_vars

\* a resumption of the generator can be made: the loop is over, or the read
\* it is at does not suspend (this is ENABLED <<Next>>_vars, written out)
CanResume ==
    /\ Resumable
    /\ \/ ~LoopCondition(response, password_ok_received)
       \/ get_response_from_isabelle(stream, pos, eof).outcome # "suspended"

\* the consumer iterates the generator to exhaustion (async for): a
\* resumption that can be made is made. This is weak fairness of Next,
\* WF_vars(Next), with ENABLED <<Next>>_vars written out as CanResume.
Consumed_ToExhaustion == []<>(~CanResume) \/ []<><<Next>>_vars

SpecLive == Init /\ [][Next]_vars /\ Consumed_ToExhaustion

(***************************************************************************)
(* IsabelleClient.execute_command of                                       *)
(* src/src/isabelle_client/isabelle_client.py, with the generator          *)
(* get_final_message of src/src/isabelle_client/socket_communication.py    *)
(* that its list comprehension drives. One action per stretch of code      *)
(* between two suspension points.                                          *)
(***************************************************************************)
\* f"{self.password}\n{command}\n"
Preamble(password, command) == <<password, NL, command, NL>>

\* a choice that takes the synchronous set for an asynchronous command
FinalMessage_Swapped(asynchronous) ==
    IF asynchronous THEN SYNCHRONOUS_FINAL_MESSAGES ELSE ASYNCHRONOUS_FINAL_MESSAGES

\* the final_message argument chosen from the asynchronous flag
FinalMessage(asynchronous) ==
    IF asynchronous THEN ASYNCHRONOUS_FINAL_MESSAGES ELSE SYNCHRONOUS_FINAL_MESSAGES

\* the condition of the while loop of get_final_message; r is the local
\* response, NoTypedResponse while it is None
TypedLoopCondition(r, final) == r = NoTypedResponse \/ r.response_type \notin final

\* a list that keeps the acknowledgement in front
Collected_WithAck(me) == <<me.password_ok>> \o me.messages

\* the list the comprehension has built
Collected(me) == me.messages

\* what the caller gets when the call returns
Returned(list) == [returned |-> TRUE, list |-> list]

Entry(c, text) == [by |-> c, text |-> text]

\* execute_command up to the first read: the connection is opened and the
\* preamble written and drained
ExecOpen(c) ==
    /\ calls[c].pc = "called"
    /\ LET me == calls[c]
           opened == open_connection(connections, address, port, c)
       IN  /\ calls' = [calls EXCEPT ![c] =
                          [me EXCEPT !.pc = "ack",
                                     !.final_message = FinalMessage(me.asynchronous),
                                     !.writer = opened.writer]]
           /\ connections' = Write(opened.connections, opened.writer,
                                   Preamble(Password, me.command))
    /\ UNCHANGED <<self_logger, client_log>>
    /\ UNCHANGED <<gen_vars, reader_vars, method_vars>>

\* a call that logs the command and not the acknowledgement
ExecAck_Silent(c) ==
    /\ calls[c].pc = "ack"
    /\ LET me  == calls[c]
           got == typed_get_response_from_isabelle(me.stream, me.pos, me.eof)
       IN  /\ got.outcome = "return"
           /\ calls' = [calls EXCEPT ![c] =
                          [@ EXCEPT !.pc = "collect",
                                    !.password_ok = got.response,
                                    !.pos = got.pos,
                                    !.reads = @ + 1]]
           /\ client_log' =
                IF self_logger
                THEN Append(client_log, Entry(c, Preamble(Password, me.command)))
                ELSE client_log
    /\ UNCHANGED <<self_logger, connections>>
    /\ UNCHANGED <<gen_vars, reader_vars, method_vars>>

\* the first read returns: the frame is kept as password_ok and logged
\* after the command
ExecAck(c) ==
    /\ calls[c].pc = "ack"
    /\ LET me  == calls[c]
           got == typed_get_response_from_isabelle(me.stream, me.pos, me.eof)
       IN  /\ got.outcome = "return"
           /\ calls' = [calls EXCEPT ![c] =
                          [@ EXCEPT !.pc = "collect",
                                    !.password_ok = got.response,
                                    !.pos = got.pos,
                                    !.reads = @ + 1]]
           /\ client_log' =
                IF self_logger
                THEN client_log
                     \o <<Entry(c, Preamble(Password, me.command)),
                          Entry(c, TypedResponseStr(got.response))>>
                ELSE client_log
    /\ UNCHANGED <<self_logger, connections>>
    /\ UNCHANGED <<gen_vars, reader_vars, method_vars>>

\* the first read raises
ExecAckRaise(c) ==
    /\ calls[c].pc = "ack"
    /\ LET me  == calls[c]
           got == typed_get_response_from_isabelle(me.stream, me.pos, me.eof)
       IN  /\ got.outcome = "raise"
           /\ calls' = [calls EXCEPT ![c] =
                          [@ EXCEPT !.pc = "raised",
                                    !.error = got.error,
                                    !.pos = got.pos,
                                    !.reads = @ + 1]]
    /\ UNCHANGED <<self_logger, client_log, connections>>
    /\ UNCHANGED <<gen_vars, reader_vars, method_vars>>

\* a call that hands the frames read so far to the caller when a read raises
ExecCollectRaise_Partial(c) ==
    /\ calls[c].pc = "collect"
    /\ LET me  == calls[c]
           got == typed_get_response_from_isabelle(me.stream, me.pos, me.eof)
       IN  /\ TypedLoopCondition(me.response, me.final_message)
           /\ got.outcome = "raise"
           /\ calls' = [calls EXCEPT ![c] =
                          [@ EXCEPT !.pc = "returned",
                                    !.result = Returned(Collected(me)),
                                    !.pos = got.pos,
                                    !.reads = @ + 1]]
    /\ UNCHANGED <<self_logger, client_log, connections>>
    /\ UNCHANGED <<gen_vars, reader_vars, method_vars>>

\* a read of the generator raises: the error leaves the comprehension and
\* the call
ExecCollectRaise(c) ==
    /\ calls[c].pc = "collect"
    /\ LET me  == calls[c]
           got == typed_get_response_from_isabelle(me.stream, me.pos, me.eof)
       IN  /\ TypedLoopCondition(me.response, me.final_message)
           /\ got.outcome = "raise"
           /\ calls' = [calls EXCEPT ![c] =
                          [@ EXCEPT !.pc = "raised",
                                    !.error = got.error,
                                    !.pos = got.pos,
                                    !.reads = @ + 1]]
    /\ UNCHANGED <<self_logger, client_log, connections>>
    /\ UNCHANGED <<gen_vars, reader_vars, method_vars>>

\* a call whose frames go to one list of the client, shared by the calls
\* that are collecting
ExecCollect_Shared(c) ==
    /\ calls[c].pc = "collect"
    /\ LET me  == calls[c]
           got == typed_get_response_from_isabelle(me.stream, me.pos, me.eof)
           shared == [d \in Calls |->
                        IF d # c /\ calls[d].pc = "collect"
                        THEN [calls[d] EXCEPT !.messages = Append(@, got.response)]
                        ELSE calls[d]]
           after == [me EXCEPT !.response = got.response,
                               !.messages = Append(@, got.response),
                               !.pos = got.pos,
                               !.reads = @ + 1]
       IN  /\ TypedLoopCondition(me.response, me.final_message)
           /\ got.outcome = "return"
           /\ client_log' =
                IF self_logger
                THEN Append(client_log, Entry(c, TypedResponseStr(got.response)))
                ELSE client_log
           /\ \/ /\ TypedLoopCondition(got.response, me.final_message)
                 /\ calls' = [shared EXCEPT ![c] = after]
              \/ /\ ~TypedLoopCondition(got.response, me.final_message)
                 /\ calls' = [shared EXCEPT ![c] =
                                [after EXCEPT !.pc = "returned",
                                              !.result = Returned(Collected(after))]]
    /\ UNCHANGED <<self_logger, connections>>
    /\ UNCHANGED <<gen_vars, reader_vars, method_vars>>

\* a read of the generator returns a frame: it is logged, yielded and
\* appended; when the loop condition is then false the generator ends and
\* the call returns the list
ExecCollect(c) ==
    /\ calls[c].pc = "collect"
    /\ LET me  == calls[c]
           got == typed_get_response_from_isabelle(me.stream, me.pos, me.eof)
           after == [me EXCEPT !.response = got.response,
                               !.messages = Append(@, got.response),
                               !.pos = got.pos,
                               !.reads = @ + 1]
       IN  /\ TypedLoopCondition(me.response, me.final_message)
           /\ got.outcome = "return"
           /\ client_log' =
                IF self_logger
                THEN Append(client_log, Entry(c, TypedResponseStr(got.response)))
                ELSE client_log
           /\ \/ /\ TypedLoopCondition(got.response, me.final_message)
                 /\ calls' = [calls EXCEPT ![c] = after]
              \/ /\ ~TypedLoopCondition(got.response, me.final_message)
                 /\ calls' = [calls EXCEPT ![c] =
                                [after EXCEPT !.pc = "returned",
                                              !.result = Returned(Collected(after))]]
    /\ UNCHANGED <<self_logger, connections>>
    /\ UNCHANGED <<gen_vars, reader_vars, method_vars>>

\* one call of execute_command on a client
InitClient ==
    /\ stream = <<>>
    /\ eof = FALSE
    /\ pos = 0
    /\ reads = 0
    /\ final_message = {}
    /\ logger = FALSE
    /\ response = IsabelleResponse(<<>>, <<>>, None)
    /\ password_ok_received = FALSE
    /\ gen = "idle"
    /\ yielded = <<>>
    /\ log = <<>>
    /\ error = NoError
    /\ self_logger \in BOOLEAN
    /\ client_log = <<>>
    /\ connections = <<>>
    /\ IdleReader
    /\ IdleMethod
    /\ \E command \in Commands, given \in Given, s \in Streams, e \in BOOLEAN :
          calls = [c \in Calls |->
                     IF c = 1 THEN NewCall("called", command, given, s, e)
                     ELSE IdleCall]

NextClient ==
    \E c \in Calls :
        \/ ExecOpen(c)
        \/ ExecAck(c)
        \/ ExecAckRaise(c)
        \/ ExecCollect(c)
        \/ ExecCollectRaise(c)

SpecClient == InitClient /\ [][NextClient]_vars

\* what the server sends on the connection of one of several calls
CallStreams ==
    { Notifications(1, Line(FINISHED, <<>>)),
      Line(OK, <<>>) \o Line(OK, <<>>),
      Line(OK, <<>>) \o Bang \o <<NL>>,
      Bang \o <<NL>> }

\* every call of Calls is made on the one client; the calls run one after
\* the other or interleaved at their suspension points
InitCalls ==
    /\ stream = <<>>
    /\ eof = FALSE
    /\ pos = 0
    /\ reads = 0
    /\ final_message = {}
    /\ logger = FALSE
    /\ response = IsabelleResponse(<<>>, <<>>, None)
    /\ password_ok_received = FALSE
    /\ gen = "idle"
    /\ yielded = <<>>
    /\ log = <<>>
    /\ error = NoError
    /\ self_logger \in BOOLEAN
    /\ client_log = <<>>
    /\ connections = <<>>
    /\ IdleReader
    /\ IdleMethod
    /\ calls \in [Calls -> { NewCall("called", command, <<asynchronous>>, s, e) :
                                command \in Commands, asynchronous \in BOOLEAN,
                                s \in CallStreams, e \in BOOLEAN }]

SpecCalls == InitCalls /\ [][NextClient]_vars

\* either snapshot at work
SpecBoth == (Init \/ InitClient) /\ [][Next \/ NextClient]_vars

\* the frames a server sends after the acknowledgement
LaterItems ==
    PlainItems \cup { Line(FAILED, <<>>), Line(NOTE, <<QUOTE, "X", QUOTE>>) }

\* streams of newline-terminated frames of the five kinds, the first of
\* kind OK
AcknowledgedStreams ==
    { Line(OK, <<>>) \o Concat(items) : items \in SeqsUpTo(LaterItems, MaxFrames - 1) }

\* the generator of src/isabelle_client/socket_communication.py and
\* execute_command of src/src/isabelle_client/isabelle_client.py, each on its
\* own connection to servers that send the same bytes, with the same final
\* set
InitAgree ==
    /\ stream \in AcknowledgedStreams
    /\ eof \in BOOLEAN
    /\ pos = 0
    /\ reads = 0
    /\ logger = FALSE
    /\ response = IsabelleResponse(<<>>, <<>>, None)
    /\ password_ok_received = FALSE
    /\ gen = "created"
    /\ yielded = <<>>
    /\ log = <<>>
    /\ error = NoError
    /\ self_logger = FALSE
    /\ client_log = <<>>
    /\ connections = <<>>
    /\ IdleReader
    /\ IdleMethod
    /\ \E asynchronous \in BOOLEAN :
          /\ final_message = FinalMessage(asynchronous)
          /\ calls = [c \in Calls |->
                        IF c = 1
                        THEN NewCall("called", "help", <<asynchronous>>, stream, eof)
                        ELSE IdleCall]

\* the steps of the two; the first read of the call finds a whole frame of
\* kind OK on these streams, so it never raises
NextAgree ==
    \/ Next
    \/ \E c \in Calls :
          \/ ExecOpen(c)
          \/ ExecAck(c)
          \/ ExecCollect(c)
          \/ ExecCollectRaise(c)

SpecAgree == InitAgree /\ [][NextAgree]_vars

(***************************************************************************)
(* get_response_from_isabelle called on its own, again and again, on a     *)
(* StreamReader that holds one wire item and the bytes that follow it.     *)
(***************************************************************************)
\* the characters of a body
BodyChars == {SP, NL, "1", "X"}

Bodies == SeqsUpTo(BodyChars, MaxBody)

\* the five kinds of the protocol and a word that is none of them
WireKinds == IsabelleResponseType \cup {<<"X">>}

\* the payload '<KIND>[ <BODY>]'
Payload(kind, body) == kind \o (IF body # <<>> THEN <<SP>> \o body ELSE <<>>)

\* the bytes of an item: the rendering of a frame followed by a line
\* terminator, the rendering of a frame with the length of its payload, a
\* payload one byte shorter than its length line declares, or raw bytes
Encode(item) ==
    CASE item.form = "line" ->
            ResponseStr(IsabelleResponse(item.kind, item.body, None)) \o <<NL>>
      [] item.form = "prefixed" ->
            ResponseStr(IsabelleResponse(item.kind, item.body,
                                         Len(Payload(item.kind, item.body))))
      [] item.form = "short" ->
            FormatInt(Len(Payload(item.kind, item.body)) + 1) \o <<NL>>
            \o Payload(item.kind, item.body)
      [] item.form = "raw" -> item.body

Rests == { <<>>, <<NL>>, Line(OK, <<>>) }

RawItems ==
    { Bang \o <<NL>>, Prefixed(Bang), NOTE, <<>>, <<"9", NL>>,
      <<"1", "2", SP, "X", NL, "1", "2">>, <<"1", "X", NL>>, <<"0", NL>> }

Items ==
    { Item(form, kind, body, rest) :
        form \in {"line", "prefixed", "short"}, kind \in WireKinds,
        body \in Bodies, rest \in Rests }
    \cup { Item("raw", <<>>, raw, rest) : raw \in RawItems, rest \in Rests }

\* the reader of either snapshot on StreamReader r
Read(snap, r) ==
    IF snap = "typed"
    THEN typed_get_response_from_isabelle(r.stream, r.pos, r.eof)
    ELSE get_response_from_isabelle(r.stream, r.pos, r.eof)

\* what a call leaves behind
Call(start, outcome, frame, err) ==
    [start |-> start, outcome |-> outcome, response |-> frame, error |-> err]

\* a call of get_response_from_isabelle(reader) returns a frame
ReaderReturn ==
    /\ snapshot # ""
    /\ LET read == Read(snapshot, reader)
       IN  /\ read.outcome = "return"
           /\ reader' = [reader EXCEPT !.pos = read.pos]
           /\ result' = Call(reader.pos, "return", read.response, NoError)
    /\ UNCHANGED <<snapshot, sent>>
    /\ UNCHANGED <<gen_vars, client_vars, method_vars>>

\* a call of get_response_from_isabelle(reader) raises
ReaderRaise ==
    /\ snapshot # ""
    /\ LET read == Read(snapshot, reader)
       IN  /\ read.outcome = "raise"
           /\ reader' = [reader EXCEPT !.pos = read.pos]
           /\ result' = Call(reader.pos, "raise", read.response, read.error)
    /\ UNCHANGED <<snapshot, sent>>
    /\ UNCHANGED <<gen_vars, client_vars, method_vars>>

InitReader ==
    /\ stream = <<>>
    /\ eof = FALSE
    /\ pos = 0
    /\ reads = 0
    /\ final_message = {}
    /\ logger = FALSE
    /\ response = IsabelleResponse(<<>>, <<>>, None)
    /\ password_ok_received = FALSE
    /\ gen = "idle"
    /\ yielded = <<>>
    /\ log = <<>>
    /\ error = NoError
    /\ calls = [c \in Calls |-> IdleCall]
    /\ self_logger = FALSE
    /\ client_log = <<>>
    /\ connections = <<>>
    /\ snapshot \in {"string", "typed"}
    /\ sent \in Items
    /\ \E e \in BOOLEAN :
          reader = [stream |-> Encode(sent) \o sent.rest, eof |-> e, pos |-> 0]
    /\ result = NoCall
    /\ IdleMethod

NextReader == ReaderReturn \/ ReaderRaise

SpecReader == InitReader /\ [][NextReader]_vars

(***************************************************************************)
(* session_start, session_stop and use_theories of IsabelleClient in       *)
(* src/isabelle_client/isabelle__client.py. Each runs execute_command to   *)
(* its end (asyncio.run) and gets one response or an error from it; what   *)
(* execute_command gives is an input here, as in the doctests.             *)
(***************************************************************************)
\* the session identifiers a server hands out
SessionIds == {"test_session", "session_id__42"}

\* the body '{"session_id": "<id>"}', as the chunks it is made of
SessionBody(id) == <<"{\"session_id\": \"", id, "\"}">>

OkTrueBody == <<"{\"ok\": true}">>

\* the bodies of the responses execute_command returns
ReplyBodies == { SessionBody(id) : id \in SessionIds } \cup { OkTrueBody, <<"OK">>, <<>> }

\* execute_command returns a response
Reply(frame) == [raised |-> FALSE, response |-> frame, error |-> NoError]

\* execute_command raises
ReplyError(err) == [raised |-> TRUE, response |-> NoResponse, error |-> err]

Replies ==
    { Reply(IsabelleResponse(kind, body, None)) :
        kind \in IsabelleResponseType, body \in ReplyBodies }
    \cup { ReplyError(UnexpectedResponse(Bang)),
           ReplyError([exc |-> "ConnectionRefusedError", message |-> <<>>]) }

\* methods none of which passes asynchronous=False
Passed_Default(name) == <<>>

\* the asynchronous argument a method passes to execute_command with the
\* command name: <<FALSE>>, or nothing
Passed(name) ==
    IF name \in {"echo", "help", "purge_theories", "cancel", "shutdown"}
    THEN <<FALSE>> ELSE <<>>

\* execute_command(f"<name> {json.dumps(arguments)}"[, asynchronous=False]):
\* the command, the session it names and the flag the call binds
Command(name, session) ==
    [name |-> name, session |-> session, asynchronous |-> Bind(Passed(name))]

\* an exception and the function it leaves first
RaisedBy(by, err) == [exc |-> err.exc, message |-> err.message, by |-> by]

NotRaised == [exc |-> "", message |-> <<>>, by |-> ""]

\* what a function hands back: a value, or an error
Outcome(returned, value, err) == [returned |-> returned, value |-> value, error |-> err]

\* json.loads(response.response_body)["session_id"]
SessionIdOf(body) ==
    IF Len(body) = 3 /\ body[1] = SessionBody("")[1] /\ body[3] = SessionBody("")[3]
    THEN Outcome(TRUE, body[2], NotRaised)
    ELSE IF body = OkTrueBody
    THEN Outcome(FALSE, NoSession,
                 RaisedBy("session_start", [exc |-> "KeyError", message |-> <<"'session_id'">>]))
    ELSE Outcome(FALSE, NoSession,
                 RaisedBy("session_start", JSONDecodeError("Expecting value")))

\* a session_start that takes the session id of a response of any kind
session_start_AnyKind(reply) ==
    IF reply.raised
    THEN Outcome(FALSE, NoSession, RaisedBy("execute_command", reply.error))
    ELSE SessionIdOf(reply.response.response_body)

\* session_start after execute_command: the session id, or an error
session_start(reply) ==
    IF reply.raised
    THEN Outcome(FALSE, NoSession, RaisedBy("execute_command", reply.error))
    ELSE IF reply.response.response_type = FINISHED
    THEN SessionIdOf(reply.response.response_body)
    ELSE Outcome(FALSE, NoSession,
                 RaisedBy("session_start",
                          [exc |-> "ValueError",
                           message |-> <<"Unexpected response type: ">>
                                       \o reply.response.response_type]))

\* the default of the parameter session of session_start
DefaultSession == "HOL"

\* session_start(): one command, then the session id or an error
SessionStart ==
    /\ method.client = AsyncioClient
    /\ method.op = "session_start"
    /\ method.pc = "called"
    /\ \E reply \in Replies :
          LET out == session_start(reply)
          IN  method' = [method EXCEPT
                !.issued = Append(@, Command("session_start", DefaultSession)),
                !.response = reply.response,
                !.pc = IF out.returned THEN "returned" ELSE "raised",
                !.returned = out.returned,
                !.value = out.value,
                !.error = out.error]
    /\ UNCHANGED <<gen_vars, client_vars, reader_vars>>

\* use_theories: new_session_id is the session given, or the one that
\* session_start makes
UseTheoriesBegin ==
    /\ method.client = AsyncioClient
    /\ method.op = "use_theories"
    /\ method.pc = "called"
    /\ \/ /\ method.session_id # NoSession
          /\ method' = [method EXCEPT !.new_session_id = method.session_id,
                                      !.pc = "use"]
       \/ /\ method.session_id = NoSession
          /\ \E reply \in Replies :
                LET out == session_start(reply)
                IN  method' = [method EXCEPT
                      !.issued = Append(@, Command("session_start", DefaultSession)),
                      !.new_session_id = out.value,
                      !.pc = IF out.returned THEN "use" ELSE "raised",
                      !.error = out.error]
    /\ UNCHANGED <<gen_vars, client_vars, reader_vars>>

\* use_theories: the use_theories command; its error leaves the method
UseTheoriesRun ==
    /\ method.client = AsyncioClient
    /\ method.op = "use_theories"
    /\ method.pc = "use"
    /\ \E reply \in Replies :
          method' = [method EXCEPT
            !.issued = Append(@, Command("use_theories", method.new_session_id)),
            !.response = reply.response,
            !.pc = IF reply.raised THEN "raised"
                   ELSE IF method.session_id = NoSession THEN "stop"
                   ELSE "returned",
            !.returned = ~reply.raised /\ method.session_id # NoSession,
            !.error = IF reply.raised THEN RaisedBy("execute_command", reply.error)
                      ELSE NotRaised]
    /\ UNCHANGED <<gen_vars, client_vars, reader_vars>>

\* use_theories: session_stop of the session it started, then the return of
\* the response of use_theories
UseTheoriesStop ==
    /\ method.client = AsyncioClient
    /\ method.op = "use_theories"
    /\ method.pc = "stop"
    /\ \E reply \in Replies :
          method' = [method EXCEPT
            !.issued = Append(@, Command("session_stop", method.new_session_id)),
            !.pc = IF reply.raised THEN "raised" ELSE "returned",
            !.returned = ~reply.raised,
            !.error = IF reply.raised THEN RaisedBy("execute_command", reply.error)
                      ELSE NotRaised]
    /\ UNCHANGED <<gen_vars, client_vars, reader_vars>>

(***************************************************************************)
(* The methods of one command: session_build, session_stop, echo, help,    *)
(* purge_theories, cancel and shutdown of isabelle__client.py, which       *)
(* return the response of execute_command.                                 *)
(***************************************************************************)
OneCommandMethods ==
    {"session_build", "session_stop", "echo", "help", "purge_theories", "cancel",
     "shutdown"}

\* the session a command names: the session to build or start, the
\* session_id of a running session, or none
SessionOf(client, name, session_id) ==
    IF name \in {"session_build", "session_start"}
    THEN (IF client = AsyncioClient THEN DefaultSession ELSE "Main")
    ELSE IF name \in {"session_stop", "use_theories", "purge_theories"}
    THEN session_id
    ELSE NoSession

OneCommand ==
    /\ method.client = AsyncioClient
    /\ method.op \in OneCommandMethods
    /\ method.pc = "called"
    /\ \E reply \in Replies :
          method' = [method EXCEPT
            !.issued = Append(@, Command(method.op,
                                         SessionOf(AsyncioClient, method.op,
                                                   method.session_id))),
            !.response = reply.response,
            !.pc = IF reply.raised THEN "raised" ELSE "returned",
            !.returned = ~reply.raised,
            !.error = IF reply.raised THEN RaisedBy("execute_command", reply.error)
                      ELSE NotRaised]
    /\ UNCHANGED <<gen_vars, client_vars, reader_vars>>

(***************************************************************************)
(* The methods of IsabelleClient in                                        *)
(* src/src/isabelle_client/isabelle_client.py: one execute_command, whose  *)
(* list of raw responses is wrapped frame by frame in the classes of       *)
(* data_models.py. Of a body the model keeps the session_id it names,      *)
(* whether it reports errors, and whether it validates as the body of the  *)
(* class its frame is wrapped in.                                          *)
(***************************************************************************)
MaxEarlier == 1

TypedBody(session_id, errors, valid) ==
    [session_id |-> session_id, errors |-> errors, valid |-> valid]

\* the raw frames of a kind
RawFrames(kind) ==
    { IsabelleResponse(kind, TypedBody(NoSession, FALSE, valid), None) :
        valid \in BOOLEAN }
    \cup (IF kind = FINISHED
          THEN { IsabelleResponse(kind, TypedBody("test_session", errors, TRUE), None) :
                   errors \in BOOLEAN }
          ELSE {})

\* the lists execute_command returns for a final set: frames of other
\* kinds, then one frame of a kind of the set
RawLists(final) ==
    { earlier \o <<last>> :
        earlier \in SeqsUpTo(UNION { RawFrames(kind) :
                                       kind \in IsabelleResponseType \ final },
                             MaxEarlier),
        last \in UNION { RawFrames(kind) : kind \in final } }

\* what execute_command gives a method that passes the flag asynchronous
TypedReplies(asynchronous) ==
    { [raised |-> FALSE, list |-> list, error |-> NoError] :
        list \in RawLists(FinalMessage(asynchronous)) }
    \cup { [raised |-> TRUE, list |-> <<>>, error |-> err] :
             err \in { UnexpectedResponse(Bang),
                       [exc |-> "ConnectionRefusedError", message |-> <<>>] } }

\* the class a method wraps a raw response of a kind in
WrapClass(name, kind) ==
    CASE name = "session_build" ->
            (IF kind = FINISHED THEN "SessionBuildRegularResponse"
             ELSE IF kind = ERROR THEN "SessionBuildErrorResponse"
             ELSE IF kind = OK THEN "TaskOK"
             ELSE "NotificationResponse")
      [] name = "session_start" ->
            (IF kind = FINISHED THEN "SessionStartRegularResponse"
             ELSE IF kind = FAILED THEN "SessionStartErrorResponse"
             ELSE IF kind = OK THEN "TaskOK"
             ELSE "NotificationResponse")
      [] name = "session_stop" ->
            (IF kind = FINISHED THEN "SessionStopRegularResponse"
             ELSE IF kind = FAILED THEN "SessionStopErrorResponse"
             ELSE IF kind = OK THEN "TaskOK"
             ELSE "NotificationResponse")
      [] name = "use_theories" ->
            (IF kind = FINISHED THEN "UseTheoriesResponse"
             ELSE IF kind = FAILED THEN "UseTheoriesErrorResponse"
             ELSE "TaskOK")
      [] name = "help" -> "HelpResult"
      [] name = "purge_theories" -> "PurgeTheoriesResponse"
      [] name = "echo" -> "IsabelleResponse"
      [] name \in {"cancel", "shutdown"} -> "SimpleIsabelleResponse"

\* the methods that build an object of a class of data_models.py from
\* each raw response, body included
Wrapping == {"session_build", "session_start", "session_stop", "use_theories", "help",
             "purge_theories"}

\* Class(**raw_response.model_dump())
Typed(name, frame) == [class |-> WrapClass(name, frame.response_type), raw |-> frame]

ValidationError == [exc |-> "ValidationError", message |-> <<>>]

\* a method after execute_command: the typed responses, or an error
TypedResult(name, reply) ==
    IF reply.raised
    THEN Outcome(FALSE, <<>>, RaisedBy("execute_command", reply.error))
    ELSE IF name \in Wrapping
            /\ \E i \in 1..Len(reply.list) : ~reply.list[i].response_body.valid
    THEN Outcome(FALSE, <<>>, RaisedBy(name, ValidationError))
    ELSE IF name \in {"cancel", "shutdown"}
    THEN Outcome(TRUE, <<Typed(name, IsabelleResponse(reply.list[1].response_type,
                                                      TypedBody(NoSession, FALSE, TRUE),
                                                      None))>>,
                 NotRaised)
    ELSE Outcome(TRUE, [i \in 1..Len(reply.list) |-> Typed(name, reply.list[i])],
                 NotRaised)

TypedMethods == Wrapping \cup {"echo", "cancel", "shutdown"}

TypedCommand ==
    /\ method.client = TypedClient
    /\ method.op \in TypedMethods
    /\ method.pc = "called"
    /\ LET command == Command(method.op,
                              SessionOf(TypedClient, method.op, method.session_id))
       IN  \E reply \in TypedReplies(command.asynchronous) :
              LET out == TypedResult(method.op, reply)
              IN  method' = [method EXCEPT
                    !.issued = Append(@, command),
                    !.response = reply.list,
                    !.pc = IF out.returned THEN "returned" ELSE "raised",
                    !.returned = out.returned,
                    !.value = out.value,
                    !.error = out.error]
    /\ UNCHANGED <<gen_vars, client_vars, reader_vars>>

(***************************************************************************)
(* IsabelleConnector.build_theory of                                       *)
(* src/src/isabelle_client/isabelle_connector.py.                          *)
(***************************************************************************)
\* session_start()[-1].response_body.session_id
BuildTheoryStart ==
    /\ method.client = Connector
    /\ method.op = "build_theory"
    /\ method.pc = "called"
    /\ LET command == Command("session_start",
                              SessionOf(TypedClient, "session_start", NoSession))
       IN  \E reply \in TypedReplies(command.asynchronous) :
              LET out  == TypedResult("session_start", reply)
                  last == out.value[Len(out.value)]
                  id   == last.raw.response_body.session_id
              IN  method' = [method EXCEPT
                    !.issued = Append(@, command),
                    !.new_session_id =
                        IF out.returned /\ last.class = "SessionStartRegularResponse"
                        THEN id ELSE NoSession,
                    !.pc = IF out.returned /\ last.class = "SessionStartRegularResponse"
                           THEN "use" ELSE "raised",
                    !.error =
                        IF ~out.returned THEN out.error
                        ELSE IF last.class = "SessionStartRegularResponse"
                        THEN NotRaised
                        ELSE RaisedBy("build_theory",
                                      [exc |-> "AttributeError",
                                       message |-> <<"session_id">>])]
    /\ UNCHANGED <<gen_vars, client_vars, reader_vars>>

\* use_theories in the session, then the loop over its result, which raises
\* IsabelleTheoryError at a UseTheoriesResponse that reports errors
BuildTheoryUse ==
    /\ method.client = Connector
    /\ method.op = "build_theory"
    /\ method.pc = "use"
    /\ LET command == Command("use_theories", method.new_session_id)
       IN  \E reply \in TypedReplies(command.asynchronous) :
              LET out == TypedResult("use_theories", reply)
                  failed == \E i \in 1..Len(out.value) :
                              /\ out.value[i].class = "UseTheoriesResponse"
                              /\ out.value[i].raw.response_body.errors
              IN  method' = [method EXCEPT
                    !.issued = Append(@, command),
                    !.response = reply.list,
                    !.pc = IF out.returned /\ ~failed THEN "stop" ELSE "raised",
                    !.error =
                        IF ~out.returned THEN out.error
                        ELSE IF failed
                        THEN RaisedBy("build_theory",
                                      [exc |-> "IsabelleTheoryError", message |-> <<>>])
                        ELSE NotRaised]
    /\ UNCHANGED <<gen_vars, client_vars, reader_vars>>

\* session_stop of the session, and the return
BuildTheoryStop ==
    /\ method.client = Connector
    /\ method.op = "build_theory"
    /\ method.pc = "stop"
    /\ LET command == Command("session_stop", method.new_session_id)
       IN  \E reply \in TypedReplies(command.asynchronous) :
              LET out == TypedResult("session_stop", reply)
              IN  method' = [method EXCEPT
                    !.issued = Append(@, command),
                    !.pc = IF out.returned THEN "returned" ELSE "raised",
                    !.returned = out.returned,
                    !.error = out.error]
    /\ UNCHANGED <<gen_vars, client_vars, reader_vars>>

InitMethod ==
    /\ stream = <<>>
    /\ eof = FALSE
    /\ pos = 0
    /\ reads = 0
    /\ final_message = {}
    /\ logger = FALSE
    /\ response = IsabelleResponse(<<>>, <<>>, None)
    /\ password_ok_received = FALSE
    /\ gen = "idle"
    /\ yielded = <<>>
    /\ log = <<>>
    /\ error = NoError
    /\ calls = [c \in Calls |-> IdleCall]
    /\ self_logger = FALSE
    /\ client_log = <<>>
    /\ connections = <<>>
    /\ IdleReader
    /\ \/ method = Method("session_start", NoSession, "called")
       \/ \E session_id \in {NoSession, "test"} :
             method = Method("use_theories", session_id, "called")
       \/ \E op \in OneCommandMethods :
             method = Method(op, "test", "called")
       \/ \E op \in TypedMethods :
             method = MethodOf(TypedClient, op, "test", "called")
       \/ method = MethodOf(Connector, "build_theory", NoSession, "called")

NextMethod ==
    \/ SessionStart
    \/ UseTheoriesBegin
    \/ UseTheoriesRun
    \/ UseTheoriesStop
    \/ OneCommand
    \/ TypedCommand
    \/ BuildTheoryStart
    \/ BuildTheoryUse
    \/ BuildTheoryStop

SpecMethod == InitMethod /\ [][NextMethod]_vars

(***************************************************************************)
(* Vocabulary of the claims about an exchange.                             *)
(***************************************************************************)
Kinds(fs) == [i \in 1..Len(fs) |-> fs[i].response_type]

\* frame k of fs has a final kind and a strictly earlier frame has kind OK
TerminalAt(fs, k, final) ==
    /\ fs[k].response_type \in final
    /\ \E j \in 1..(k - 1) : fs[j].response_type = OK

\* the frames that n successive reads return from stream s after p bytes
\* (fewer when a read does not return)
RECURSIVE FramesFrom(_, _, _, _)
FramesFrom(s, p, e, n) ==
    IF n = 0 THEN <<>>
    ELSE LET got == get_response_from_isabelle(s, p, e)
         IN  IF got.outcome # "return" THEN <<>>
             ELSE <<got.response>> \o FramesFrom(s, got.pos, e, n - 1)

\* the number of bytes those reads consume
RECURSIVE BytesOf(_, _, _, _)
BytesOf(s, p, e, n) ==
    IF n = 0 THEN p
    ELSE LET got == get_response_from_isabelle(s, p, e)
         IN  IF got.outcome # "return" THEN p ELSE BytesOf(s, got.pos, e, n - 1)

\* every frame the stream holds
AllFrames == FramesFrom(stream, 0, eof, Len(stream))

\* the content a read of stream s after p bytes decides on: the line, or
\* the payload that a length line announces
IsLengthLine(line) ==
    /\ Len(line) >= 2
    /\ \A i \in 1..(Len(line) - 1) : line[i] \in Digit
    /\ line[Len(line)] = NL

Announced(line) == ParseInt(SubSeq(line, 1, Len(line) - 1))

ContentAt(s, p, e) ==
    LET line == readline(s, p, e)
    IN  IF IsLengthLine(line.data)
        THEN SubSeq(s, line.pos + 1, line.pos + Announced(line.data))
        ELSE line.data

\* the read has all the bytes it asks for
ContentArrived(s, p, e) ==
    LET line == readline(s, p, e)
    IN  /\ line.ready
        /\ IsLengthLine(line.data) => line.pos + Announced(line.data) <= Len(s)

NextContent == ContentAt(stream, pos, eof)

NextContentArrived == ContentArrived(stream, pos, eof)

\* a resumption of the generator is about to read
AboutToRead == Resumable /\ LoopCondition(response, password_ok_received)

(***************************************************************************)
(* C1. Auth-gating: the generator never ends the exchange at a frame of a  *)
(* final kind unless a strictly earlier frame of the exchange had kind OK; *)
(* [FINISHED, OK, FINISHED] with final set {FINISHED} ends on the third    *)
(* frame.                                                                  *)
(***************************************************************************)
FinishedOkFinished == Line(FINISHED, <<>>) \o Line(OK, <<>>) \o Line(FINISHED, <<>>)

C1_AuthGating ==
    /\ gen = "done" =>
         /\ yielded # <<>>
         /\ \E j \in 1..(Len(yielded) - 1) : yielded[j].response_type = OK
    /\ (gen = "done" /\ stream = FinishedOkFinished /\ final_message = {FINISHED})
         => Kinds(yielded) = <<FINISHED, OK, FINISHED>>

C1_Witness ==
    /\ gen = "done"
    /\ stream = FinishedOkFinished
    /\ final_message = {FINISHED}
    /\ Len(yielded) = 3

(***************************************************************************)
(* C2. Exact stopping point: the exchange ends at the first frame of a     *)
(* final kind that is preceded by a frame of kind OK; once that frame is   *)
(* yielded nothing more is yielded and no further read is performed, so    *)
(* the bytes after it stay unconsumed.                                     *)
(***************************************************************************)
ExchangeClosed ==
    \E k \in 1..Len(yielded) : TerminalAt(yielded, k, final_message)

C2_ExactStop ==
    /\ [](gen = "done" =>
            /\ yielded # <<>>
            /\ TerminalAt(yielded, Len(yielded), final_message)
            /\ \A k \in 1..(Len(yielded) - 1) : ~TerminalAt(yielded, k, final_message)
            /\ reads = Len(yielded)
            /\ pos = BytesOf(stream, 0, eof, Len(yielded)))
    /\ [](ExchangeClosed => gen = "done" \/ ENABLED GenStop)
    /\ [][ExchangeClosed =>
            (yielded' = yielded /\ reads' = reads /\ pos' = pos /\ log' = log)]_vars

C2_Witness ==
    /\ gen = "done"
    /\ pos < Len(stream)
    /\ Len(AllFrames) > Len(yielded)
    /\ reads = Len(yielded)

(***************************************************************************)
(* C3. Order and completeness: the frames yielded are the frames decoded   *)
(* from the stream, in arrival order from the very first frame through the *)
(* terminal frame, none dropped, duplicated or reordered; the frames       *)
(* before the OK acknowledgement and the acknowledgement are included.     *)
(***************************************************************************)
C3_OrderComplete ==
    /\ yielded = FramesFrom(stream, 0, eof, Len(yielded))
    /\ reads = Len(yielded) + (IF gen = "raised" THEN 1 ELSE 0)
    /\ gen # "raised" => pos = BytesOf(stream, 0, eof, Len(yielded))
    /\ gen = "done" =>
          /\ yielded # <<>>
          /\ TerminalAt(yielded, Len(yielded), final_message)

C3_Witness ==
    /\ gen = "done"
    /\ Len(yielded) = 4
    /\ yielded[1].response_type = NOTE
    /\ yielded[2].response_type = OK
    /\ yielded[3].response_type = NOTE

(***************************************************************************)
(* C4. Synchronous completion: with final set {OK, ERROR} and a stream     *)
(* whose first frame has kind OK, the exchange does not end on that frame; *)
(* it ends on the first later frame of kind OK or ERROR, so it has at      *)
(* least 2 frames, and [OK, OK] yields exactly 2 frames.                   *)
(***************************************************************************)
SYNCHRONOUS == {OK, ERROR}

OkOk == Line(OK, <<>>) \o Line(OK, <<>>)

C4_SyncCompletion ==
    (final_message = SYNCHRONOUS /\ yielded # <<>> /\ yielded[1].response_type = OK) =>
        /\ Len(yielded) = 1 => (gen # "done" /\ ~ENABLED GenStop)
        /\ \A k \in 2..Len(yielded) :
             yielded[k].response_type \in SYNCHRONOUS
                <=> (k = Len(yielded) /\ (gen = "done" \/ ENABLED GenStop))
        /\ gen = "done" => Len(yielded) >= 2
        /\ (gen = "done" /\ stream = OkOk) => Kinds(yielded) = <<OK, OK>>

C4_Witness ==
    /\ final_message = SYNCHRONOUS
    /\ stream = OkOk
    /\ gen = "done"
    /\ Len(yielded) = 2

(***************************************************************************)
(* C5. Asynchronous completion: with final set {FINISHED, FAILED, ERROR}   *)
(* a frame of kind OK or NOTE never ends the exchange; a stream            *)
(* [OK, NOTE, ..., NOTE, T] with T a final kind is yielded whole, in       *)
(* order, and the exchange ends at T; [OK, NOTE, NOTE, FINISHED] gives 4   *)
(* frames.                                                                 *)
(***************************************************************************)
ASYNCHRONOUS == {FINISHED, FAILED, ERROR}

OkNoteNoteFinished == Notifications(2, Line(FINISHED, <<>>))

C5_AsyncCompletion ==
    final_message = ASYNCHRONOUS =>
        /\ (yielded # <<>> /\ yielded[Len(yielded)].response_type \in {OK, NOTE})
              => (gen # "done" /\ ~ENABLED GenStop)
        /\ stream \in NotifiedStreams =>
              /\ gen # "raised"
              /\ pos = Len(stream) => (gen = "done" \/ ENABLED GenStop)
              /\ gen = "done" =>
                    /\ pos = Len(stream)
                    /\ Concat([i \in 1..Len(yielded) |->
                                  Line(yielded[i].response_type,
                                       yielded[i].response_body)]) = stream
        /\ (gen = "done" /\ stream = OkNoteNoteFinished) => Len(yielded) = 4

C5_Witness ==
    /\ final_message = ASYNCHRONOUS
    /\ stream = OkNoteNoteFinished
    /\ gen = "done"
    /\ Kinds(yielded) = <<OK, NOTE, NOTE, FINISHED>>

(***************************************************************************)
(* C8. Malformed frame: whenever the content of a frame (the line, or the  *)
(* payload that a length line announces) does not match the kind/body      *)
(* pattern, get_response_from_isabelle raises ValueError with a message    *)
(* that carries the raw content and returns no frame; the payload '# !!!'  *)
(* after the line '5' fails with 'Unexpected response from Isabelle:       *)
(* # !!!'.                                                                 *)
(***************************************************************************)
\* the content does not begin with a word character
Malformed(content) == content = <<>> \/ content[1] \notin WordChar

\* a call of execute_command is about to read
CallAboutToRead(c) ==
    \/ calls[c].pc = "ack"
    \/ /\ calls[c].pc = "collect"
       /\ TypedLoopCondition(calls[c].response, calls[c].final_message)

C8_MalformedFrame ==
    /\ [][(AboutToRead /\ NextContentArrived /\ Malformed(NextContent)) =>
            /\ gen' = "raised"
            /\ error'.exc = "ValueError"
            /\ error'.message = <<"Unexpected response from Isabelle: ">> \o NextContent
            /\ yielded' = yielded
            /\ (pos = 0 /\ stream = Prefixed(Bang)) =>
                  error'.message = <<"Unexpected response from Isabelle: ",
                                     "#", " ", "!", "!", "!">>]_vars
    /\ [][\A c \in Calls :
            LET me == calls[c]
            IN  (/\ CallAboutToRead(c)
                 /\ ContentArrived(me.stream, me.pos, me.eof)
                 /\ Malformed(ContentAt(me.stream, me.pos, me.eof))) =>
                  /\ calls'[c].pc = "raised"
                  /\ calls'[c].error.exc = "ValueError"
                  /\ calls'[c].error.message =
                        <<"Unexpected response from Isabelle: ">>
                        \o ContentAt(me.stream, me.pos, me.eof)
                  /\ calls'[c].result = NoList]_vars

C8_Witness ==
    /\ gen = "raised"
    /\ reads = 1
    /\ stream = Prefixed(Bang)
    /\ yielded = <<>>
    /\ error = [exc |-> "ValueError",
                message |-> <<"Unexpected response from Isabelle: ",
                              "#", " ", "!", "!", "!">>]

(***************************************************************************)
(* C9. Error propagation without retry: an error that                      *)
(* get_response_from_isabelle raises during get_final_message leaves the   *)
(* generator unchanged; it is not caught, the read is not retried, no      *)
(* further read is performed, and the failing content is neither logged    *)
(* nor yielded.                                                            *)
(***************************************************************************)
NextRead == get_response_from_isabelle(stream, pos, eof)

C9_ErrorPropagation ==
    /\ [][(AboutToRead /\ NextRead.outcome = "raise") =>
            /\ gen' = "raised"
            /\ error' = NextRead.error
            /\ reads' = reads + 1
            /\ log' = log
            /\ yielded' = yielded]_vars
    /\ [][gen = "raised" =>
            (gen' = "raised" /\ error' = error /\ reads' = reads /\ pos' = pos
             /\ log' = log /\ yielded' = yielded)]_vars
    /\ [](gen = "raised" => (error # NoError /\ ~ENABLED Next))

C9_Witness ==
    /\ gen = "raised"
    /\ logger
    /\ Len(yielded) = 1
    /\ Len(log) = 1
    /\ reads = 2
    /\ error.exc = "ValueError"

(***************************************************************************)
(* Vocabulary of the claims about execute_command.                         *)
(***************************************************************************)
\* the frames that n successive reads of the typed reader return
RECURSIVE TypedFramesFrom(_, _, _, _)
TypedFramesFrom(s, p, e, n) ==
    IF n = 0 THEN <<>>
    ELSE LET got == typed_get_response_from_isabelle(s, p, e)
         IN  IF got.outcome # "return" THEN <<>>
             ELSE <<got.response>> \o TypedFramesFrom(s, got.pos, e, n - 1)

\* the frames call c has received on its connection, in arrival order
Received(c) == TypedFramesFrom(calls[c].stream, 0, calls[c].eof, calls[c].reads)

C7_OkBeforeTerminal ==
    \A c \in Calls :
        calls[c].pc = "returned" =>
            \E i \in 1..(Len(Received(c)) - 1) : Received(c)[i].response_type = OK

(***************************************************************************)
(* C10. No partial result: when the read of any frame fails (the           *)
(* acknowledgement or a later frame), execute_command raises that error    *)
(* and returns no list; the frames collected before are not handed to the  *)
(* caller.                                                                 *)
(***************************************************************************)
C10_NoPartialResult ==
    /\ [](\A c \in Calls :
            /\ calls[c].result.returned <=> calls[c].pc = "returned"
            /\ calls[c].pc = "raised" =>
                  (calls[c].result = NoList /\ calls[c].error # NoError)
            /\ calls[c].pc = "returned" => calls[c].error = NoError)
    /\ [][\A c \in Calls :
            LET me  == calls[c]
                got == typed_get_response_from_isabelle(me.stream, me.pos, me.eof)
            IN  (CallAboutToRead(c) /\ got.outcome = "raise") =>
                  /\ calls'[c].pc = "raised"
                  /\ calls'[c].error = got.error
                  /\ calls'[c].result = NoList]_vars
    /\ [][\A c \in Calls :
            calls[c].pc = "raised" => calls'[c] = calls[c]]_vars

C10_Witness ==
    \E c \in Calls :
        /\ calls[c].pc = "raised"
        /\ Len(calls[c].messages) = 1
        /\ calls[c].reads = 3
        /\ calls[c].result = NoList

(***************************************************************************)
(* Vocabulary of the claims about the reader on its own.                   *)
(***************************************************************************)
\* a call of the reader has ended
Called == result.outcome # ""

\* the line the latest call began with
FirstLine == readline(reader.stream, result.start, reader.eof)

\* the latest call began with a length line, and the bytes it declares were
\* on the stream
PayloadArrived ==
    /\ Called
    /\ IsLengthLine(FirstLine.data)
    /\ FirstLine.pos + Announced(FirstLine.data) <= Len(reader.stream)

\* the bytes the latest call consumed
Consumed == SubSeq(reader.stream, result.start + 1, reader.pos)

Has(s, c) == \E i \in 1..Len(s) : s[i] = c

(***************************************************************************)
(* C11. Length-prefixed consumption: when get_response_from_isabelle reads *)
(* a line that is only decimal digits and the terminator, of value N, it   *)
(* consumes exactly N further bytes whatever they are: line terminators    *)
(* among them are no line boundaries and no terminator after them is       *)
(* consumed, so the next call starts at the byte right after those N       *)
(* bytes.                                                                  *)
(***************************************************************************)
C11_ExactConsumption ==
    /\ [](PayloadArrived =>
            /\ reader.pos = FirstLine.pos + Announced(FirstLine.data)
            /\ Consumed = FirstLine.data
                          \o SubSeq(reader.stream, FirstLine.pos + 1,
                                    FirstLine.pos + Announced(FirstLine.data)))
    /\ [][result' # result => result'.start = reader.pos]_vars

C11_Witness ==
    /\ snapshot = "string"
    /\ sent.form = "prefixed"
    /\ Has(sent.body, NL)
    /\ sent.rest = <<NL>>
    /\ result.outcome = "return"
    /\ result.start = 0
    /\ reader.pos = Len(reader.stream) - 1

(***************************************************************************)
(* C12. Length-prefixed integrity: a payload '<KIND> <BODY>' whose BODY    *)
(* holds line terminators, sent as '<N>\n<payload>' with N the length of   *)
(* the payload, is decoded by the string-kind reader to a frame whose body *)
(* is BODY whole, the line terminators and what follows them included.     *)
(* This fails: the body ends before the first line terminator.             *)
(***************************************************************************)
C12_BodyWhole ==
    (/\ snapshot = "string"
     /\ sent.form = "prefixed"
     /\ sent.kind \in IsabelleResponseType
     /\ Has(sent.body, NL)
     /\ Called
     /\ result.start = 0) =>
        /\ result.outcome = "return"
        /\ result.response.response_type = sent.kind
        /\ result.response.response_body = sent.body

(***************************************************************************)
(* C13. Frame invariant: every frame the string-kind reader returns with a *)
(* response_length has a response_body whose length in bytes is exactly    *)
(* response_length.                                                        *)
(* This fails: response_length is the length of the whole payload, kind    *)
(* and separator included.                                                 *)
(***************************************************************************)
C13_BodyLength ==
    (/\ snapshot = "string"
     /\ result.outcome = "return"
     /\ result.response.response_length # None) =>
        Len(result.response.response_body) = result.response.response_length

(***************************************************************************)
(* C14. Short payload: when a length line of value N is followed by fewer  *)
(* than N bytes before the stream is closed, get_response_from_isabelle    *)
(* raises the error it raises for content that does not match the          *)
(* kind/body pattern (ValueError) and returns no frame.                    *)
(* This fails: the error is asyncio.IncompleteReadError, an EOFError.      *)
(***************************************************************************)
C14_ShortPayload ==
    (/\ Called
     /\ IsLengthLine(FirstLine.data)
     /\ FirstLine.pos + Announced(FirstLine.data) > Len(reader.stream)) =>
        /\ result.outcome = "raise"
        /\ result.error.exc = "ValueError"

(***************************************************************************)
(* C15. Closed connection: when the connection is closed (end of stream)   *)
(* while get_final_message waits for the next frame of an unfinished       *)
(* exchange, the read fails with a connection-closed error, which the      *)
(* generator propagates without a retry; the exchange neither hangs nor    *)
(* completes normally.                                                     *)
(* This fails: the read fails with the ValueError of a malformed frame,    *)
(* built on the empty content that readline returns at the end of stream.  *)
(***************************************************************************)
\* the exceptions that tell of a closed connection
ConnectionClosedErrors ==
    {"ConnectionError", "ConnectionResetError", "ConnectionAbortedError",
     "BrokenPipeError", "EOFError", "IncompleteReadError"}

\* the generator is about to read and the stream has ended with nothing left
WaitingAtEnd == AboutToRead /\ eof /\ pos = Len(stream)

C15_ClosedConnection ==
    [][WaitingAtEnd =>
         /\ gen' = "raised"
         /\ error'.exc \in ConnectionClosedErrors
         /\ reads' = reads + 1
         /\ yielded' = yielded]_vars

(***************************************************************************)
(* C16. Round-trip framing: for every kind of the five and every body      *)
(* without a line terminator, str(IsabelleResponse(kind, body)) followed   *)
(* by a line terminator is decoded by the string-kind reader to a frame of *)
(* the same kind and the same body, with no length; and when the body is   *)
(* empty the rendering is the kind alone, with no trailing space.          *)
(***************************************************************************)
C16_RoundTrip ==
    (/\ snapshot = "string"
     /\ sent.form = "line"
     /\ sent.kind \in IsabelleResponseType
     /\ ~Has(sent.body, NL)
     /\ Called
     /\ result.start = 0) =>
        /\ result.outcome = "return"
        /\ result.response.response_type = sent.kind
        /\ result.response.response_body = sent.body
        /\ result.response.response_length = None
        /\ reader.pos = Len(reader.stream) - Len(sent.rest)
        /\ sent.body = <<>> => Consumed = sent.kind \o <<NL>>

C16_Witness ==
    /\ snapshot = "string"
    /\ sent.form = "line"
    /\ sent.kind = FAILED
    /\ sent.body = <<SP, "1", "X">>
    /\ result.outcome = "return"
    /\ result.response = IsabelleResponse(FAILED, <<SP, "1", "X">>, None)

(***************************************************************************)
(* C17. Closed set of kinds: every frame the string-kind reader returns    *)
(* (and so every frame its get_final_message yields) has a kind among OK,  *)
(* FINISHED, NOTE, FAILED and ERROR; content whose first word is any other *)
(* word is rejected instead of being returned.                             *)
(* This fails: the kind is whatever word the content begins with.          *)
(***************************************************************************)
C17_ClosedKinds ==
    (snapshot = "string" /\ result.outcome = "return") =>
        result.response.response_type \in IsabelleResponseType

(***************************************************************************)
(* C18. JSON body fallback: the typed reader decodes a non-empty body as   *)
(* JSON, and when the body is not valid JSON it still returns the frame,   *)
(* with the body left as the raw string; a body that cannot be decoded     *)
(* never makes the read fail.                                              *)
(* This fails: the error of json.loads leaves the reader.                  *)
(***************************************************************************)
C18_JsonFallback ==
    (/\ snapshot = "typed"
     /\ sent.form = "line"
     /\ sent.kind \in IsabelleResponseType
     /\ sent.body # <<>>
     /\ ~Has(sent.body, NL)
     /\ Called
     /\ result.start = 0) =>
        /\ result.outcome = "return"
        /\ result.response.response_type = sent.kind
        /\ result.response.response_body =
              (IF JsonLoads(sent.body).ok THEN JsonLoads(sent.body).value
               ELSE JsonStr(sent.body))

(***************************************************************************)
(* Vocabulary of the claims about connections.                             *)
(***************************************************************************)
\* call c has left execute_command, by a return or by an error
Exited(c) == calls[c].pc \in {"returned", "raised"}

\* call c has opened its connection
Opened(c) == calls[c].pc \notin {"idle", "called"}

(***************************************************************************)
(* C19. Connection closed after use: on every exit path of execute_command *)
(* (a normal return or a raised error) the connection the call opened is   *)
(* closed.                                                                 *)
(* This fails: the writer is never closed.                                 *)
(***************************************************************************)
C19_ClosedOnExit ==
    \A c \in Calls :
        Exited(c) =>
            /\ calls[c].writer # NoWriter
            /\ connections[calls[c].writer].closed

(***************************************************************************)
(* C20. One connection per command: every call of execute_command opens    *)
(* exactly one connection to (address, port), which carries only that      *)
(* command's preamble and exchange; no connection is pooled or reused by a *)
(* later call, so n calls open n connections.                              *)
(***************************************************************************)
C20_OneConnectionPerCommand ==
    /\ [](/\ Len(connections) = Cardinality({c \in Calls : Opened(c)})
          /\ \A c \in Calls :
                IF Opened(c)
                THEN /\ calls[c].writer \in 1..Len(connections)
                     /\ connections[calls[c].writer].opener = c
                     /\ connections[calls[c].writer].host = address
                     /\ connections[calls[c].writer].port = port
                     /\ connections[calls[c].writer].written =
                           <<Preamble(Password, calls[c].command)>>
                ELSE calls[c].writer = NoWriter
          /\ \A c, d \in Calls :
                (Opened(c) /\ Opened(d) /\ c # d) => calls[c].writer # calls[d].writer)
    /\ [][\A k \in 1..Len(connections) :
            /\ Len(connections') >= Len(connections)
            /\ connections'[k] = connections[k]]_vars
    /\ [][\A c \in Calls :
            Opened(c) => calls'[c].writer = calls[c].writer]_vars

C20_Witness ==
    /\ Len(connections) = 2
    /\ \A c \in Calls : Exited(c)
    /\ calls[1].writer = 2
    /\ calls[2].writer = 1
    /\ calls[1].command # calls[2].command

(***************************************************************************)
(* C21. Preamble: execute_command writes on its connection exactly the     *)
(* bytes of '<password>\n<command>\n', once, before any frame is read from *)
(* that connection; nothing else is ever written on it during the command. *)
(***************************************************************************)
\* what call c has written on its connection
WrittenBy(c) ==
    IF calls[c].writer = NoWriter THEN <<>>
    ELSE connections[calls[c].writer].written

C21_Preamble ==
    /\ [](\A c \in Calls :
            /\ Opened(c) =>
                  WrittenBy(c) = << <<Password, NL, calls[c].command, NL>> >>
            /\ ~Opened(c) => (WrittenBy(c) = <<>> /\ calls[c].reads = 0))
    /\ [][\A c \in Calls :
            calls'[c].reads > calls[c].reads =>
                (WrittenBy(c) # <<>> /\ connections' = connections)]_vars
    /\ [][\A k \in 1..Len(connections') :
            (k > Len(connections) \/ connections'[k] # connections[k]) =>
                \E c \in Calls :
                    /\ calls'[c].writer = k
                    /\ calls[c].reads = 0
                    /\ calls'[c].reads = 0]_vars

C21_Witness ==
    \E c \in Calls :
        /\ calls[c].pc = "returned"
        /\ calls[c].reads = 3
        /\ calls[c].command = "help"
        /\ WrittenBy(c) = << <<"test_password", NL, "help", NL>> >>

(***************************************************************************)
(* C22. Logging sink, one record per frame: with a logger, the string-kind *)
(* get_final_message records exactly one entry per frame read, equal to    *)
(* the frame's rendering (the length line if a length is present, the      *)
(* kind, a single space if and only if the body is non-empty, the body);   *)
(* the entry is recorded before the frame is yielded, so the log is in     *)
(* frame order and has as many entries as frames yielded. Without a logger *)
(* nothing is recorded.                                                    *)
(***************************************************************************)
\* the rendering the claim describes
Rendering(frame) ==
    LET head == IF frame.response_length = None THEN <<>>
                ELSE FormatInt(frame.response_length) \o <<NL>>
        sep  == IF Len(frame.response_body) > 0 THEN <<SP>> ELSE <<>>
    IN  head \o frame.response_type \o sep \o frame.response_body

C22_LogPerFrame ==
    /\ [](IF logger
          THEN /\ Len(log) = Len(yielded)
               /\ \A i \in 1..Len(log) : log[i] = Rendering(yielded[i])
          ELSE log = <<>>)
    /\ [][(logger /\ yielded' # yielded) =>
            /\ Len(yielded') = Len(yielded) + 1
            /\ log' = Append(log, Rendering(yielded'[Len(yielded')]))]_vars
    /\ [][(logger /\ yielded' = yielded) => log' = log]_vars

C22_Witness ==
    /\ logger
    /\ gen = "done"
    /\ log = << OK, <<"1", "2", NL>> \o FINISHED \o <<SP, "1">> >>
    /\ Len(yielded) = 2

(***************************************************************************)
(* C23. Log of a command: when execute_command runs with a logger and      *)
(* completes, the log holds, in this order, one entry with the preamble    *)
(* text '<password>\n<command>\n' (password included), one entry for the   *)
(* acknowledgement frame, then one entry for each later frame in arrival   *)
(* order through the terminal frame; every frame received on the           *)
(* connection is logged exactly once.                                      *)
(***************************************************************************)
\* the texts call c has logged, in order
RECURSIVE TextsOf(_, _)
TextsOf(entries, c) ==
    IF entries = <<>> THEN <<>>
    ELSE (IF Head(entries).by = c THEN <<Head(entries).text>> ELSE <<>>)
         \o TextsOf(Tail(entries), c)

C23_CommandLog ==
    \A c \in Calls :
        (calls[c].pc = "returned" /\ self_logger) =>
            LET texts == TextsOf(client_log, c)
                frames == Received(c)
            IN  /\ Len(frames) = calls[c].reads
                /\ Len(texts) = 1 + Len(frames)
                /\ texts[1] = <<Password, NL, calls[c].command, NL>>
                /\ \A i \in 1..Len(frames) :
                      texts[i + 1] = TypedResponseStr(frames[i])
                /\ frames[Len(frames)].response_type \in calls[c].final_message

C23_Witness ==
    /\ self_logger
    /\ calls[1].pc = "returned"
    /\ calls[1].command = "session_start"
    /\ Len(client_log) = 4
    /\ client_log[1].text = <<"test_password", NL, "session_start", NL>>
    /\ calls[1].reads = 3
    /\ calls[1].password_ok.response_type = OK
    /\ calls[1].response.response_type = FINISHED

(***************************************************************************)
(* C24. Final-kind set selection: execute_command uses the final set       *)
(* {FINISHED, FAILED, ERROR} when asynchronous is true (the default) and   *)
(* {OK, ERROR} when asynchronous is false; no other final set is ever      *)
(* passed to get_final_message, and the choice depends on the flag alone,  *)
(* not on the command text.                                                *)
(***************************************************************************)
C24_FinalSetSelection ==
    \A c \in Calls :
        Opened(c) =>
            /\ calls[c].given \in {<<>>, <<TRUE>>} =>
                  calls[c].final_message = {FINISHED, FAILED, ERROR}
            /\ calls[c].given = <<FALSE>> =>
                  calls[c].final_message = {OK, ERROR}
            /\ calls[c].pc = "returned" =>
                  /\ calls[c].given \in {<<>>, <<TRUE>>} =>
                        calls[c].response.response_type \in {FINISHED, FAILED, ERROR}
                  /\ calls[c].given = <<FALSE>> =>
                        calls[c].response.response_type \in {OK, ERROR}

C24_Witness ==
    \E c \in Calls :
        /\ calls[c].pc = "returned"
        /\ calls[c].given = <<>>
        /\ calls[c].command = "help"
        /\ calls[c].final_message = {FINISHED, FAILED, ERROR}
        /\ calls[c].response.response_type = FINISHED

\* session_start() has ended, by a return or by an error
SessionStartEnded ==
    /\ method.client = AsyncioClient
    /\ method.op = "session_start"
    /\ method.pc \in {"returned", "raised"}

\* execute_command returned a response to the method (it did not raise)
Answered == method.response.response_type \in IsabelleResponseType

\* "Unexpected response type: <kind>", raised by session_start itself
UnexpectedType(kind) ==
    [exc |-> "ValueError", message |-> <<"Unexpected response type: ">> \o kind,
     by |-> "session_start"]

\* C25: session_start returns a session id only when the response that
\* execute_command returned has kind FINISHED, and the id is the one in the
\* body of that response; for a response of every other kind (OK, NOTE,
\* FAILED, ERROR) it returns no session id and raises ValueError
\* "Unexpected response type: <kind>", an error of session_start and not of
\* execute_command.
C25_UnexpectedFinalKind ==
    SessionStartEnded =>
        /\ method.returned =>
              /\ Answered
              /\ method.response.response_type = FINISHED
              /\ method.response.response_body = SessionBody(method.value)
              /\ method.value \in SessionIds
              /\ method.error = NotRaised
        /\ (Answered /\ method.response.response_type # FINISHED) =>
              /\ ~method.returned
              /\ method.value = NoSession
              /\ method.error = UnexpectedType(method.response.response_type)
        /\ method.error.by = "execute_command" => ~Answered
        /\ Len(method.issued) = 1

\* a FAILED response carrying a session id ended session_start with the error
C25_Witness ==
    /\ SessionStartEnded
    /\ method.response = IsabelleResponse(FAILED, SessionBody("test_session"), None)
    /\ method.pc = "raised"
    /\ method.error = UnexpectedType(FAILED)

\* use_theories has ended, by a return or by an error
UseTheoriesEnded ==
    /\ method.client = AsyncioClient
    /\ method.op = "use_theories"
    /\ method.pc \in {"returned", "raised"}

\* C26: use_theories called with session_id None issues session_start, then
\* use_theories in the new session, then session_stop of that same session,
\* in this order, and once the session is started it is stopped on every
\* path on which use_theories ends, the path where the use_theories command
\* raises included; with a session_id given, no session_start and no
\* session_stop is issued.
C26_TemporarySession ==
    UseTheoriesEnded =>
        /\ (method.session_id = NoSession /\ method.new_session_id # NoSession) =>
              method.issued = << Command("session_start", DefaultSession),
                                 Command("use_theories", method.new_session_id),
                                 Command("session_stop", method.new_session_id) >>
        /\ method.session_id # NoSession =>
              method.issued = << Command("use_theories", method.session_id) >>

\* the renderings of frames, in order
Renderings(frames) == [i \in 1..Len(frames) |-> TypedResponseStr(frames[i])]

\* what call c has logged once its first frame is read: the command, then
\* its frames
ExchangeLog(c) ==
    IF Received(c) = <<>> THEN <<>>
    ELSE <<Preamble(Password, calls[c].command)>> \o Renderings(Received(c))

OkAmong(n) == \E i \in 1..n : yielded[i].response_type = OK

(***************************************************************************)
(* C29. The flag password_ok_received of get_final_message is a boolean    *)
(* that starts false, becomes true only after a frame of kind OK has been  *)
(* read, and is never reset within the exchange. A second OK frame in      *)
(* mid-exchange, with a final set that does not contain OK, changes        *)
(* nothing: every later frame whose kind is in the final set still ends    *)
(* the exchange.                                                           *)
(***************************************************************************)
C29_MonotoneFlag ==
    /\ [](/\ password_ok_received \in BOOLEAN
          /\ reads = 0 => ~password_ok_received
          /\ password_ok_received => OkAmong(Len(yielded)))
    /\ [][password_ok_received => password_ok_received']_vars
    /\ [][(/\ gen = "yielded"
           /\ OkAmong(Len(yielded) - 1)
           /\ yielded[Len(yielded)].response_type \in final_message)
          => (gen' = "done" /\ yielded' = yielded /\ reads' = reads)]_vars

\* two OK frames, then a frame of the final set, which ended the exchange
C29_Witness ==
    /\ gen = "done"
    /\ OK \notin final_message
    /\ Kinds(yielded) = <<OK, OK, FINISHED>>
    /\ password_ok_received

\* the bytes '12 X\n' and, after them, '12' with no line terminator
DigitsThenText == <<"1", "2", SP, "X", NL, "1", "2">>

(***************************************************************************)
(* C30. Length-prefix recognition: get_response_from_isabelle treats a     *)
(* line as a length prefix if and only if the line is one or more decimal  *)
(* digits immediately followed by the line terminator. A line of digits    *)
(* followed by anything else, and a last line of only digits that reaches  *)
(* the end of the stream without a terminator, are parsed as ordinary      *)
(* frames with no length and cause no fixed-length read.                   *)
(***************************************************************************)
C30_LengthPrefix ==
    Called =>
        LET line == FirstLine.data
            end  == FirstLine.pos + Announced(line)
        IN  /\ IsLengthLine(line) =>
                  /\ reader.pos = IF end <= Len(reader.stream) THEN end
                                  ELSE Len(reader.stream)
                  /\ result.outcome = "return" =>
                        result.response.response_length = Announced(line)
                  /\ end > Len(reader.stream) =>
                        result.error.exc = "IncompleteReadError"
                  /\ (end <= Len(reader.stream) /\ result.outcome = "raise"
                      /\ snapshot = "string") =>
                        result.error =
                          UnexpectedResponse(SubSeq(reader.stream, FirstLine.pos + 1, end))
            /\ ~IsLengthLine(line) =>
                  /\ reader.pos = FirstLine.pos
                  /\ result.outcome = "return" =>
                        result.response.response_length = None
                  /\ result.error.exc # "IncompleteReadError"
                  /\ (result.outcome = "raise" /\ snapshot = "string") =>
                        result.error = UnexpectedResponse(line)
            /\ (snapshot = "string" /\ line = <<"1", "2", SP, "X", NL>>) =>
                  result = Call(result.start, "return",
                                IsabelleResponse(<<"1", "2">>, <<"X">>, None), NoError)
            /\ (snapshot = "string" /\ line = <<"1", "2">>) =>
                  result = Call(result.start, "return",
                                IsabelleResponse(<<"1", "2">>, <<>>, None), NoError)

\* '12 X\n' was read as a frame, and then '12' at the end of the stream
C30_Witness ==
    /\ snapshot = "string"
    /\ reader.stream = DigitsThenText
    /\ reader.eof
    /\ result.start = 5
    /\ reader.pos = 7
    /\ result.response = IsabelleResponse(<<"1", "2">>, <<>>, None)

\* the latest call began with the line '0\n'
ZeroLine == Called /\ FirstLine.data = <<"0", NL>>

(***************************************************************************)
(* C31. Zero declared length: when get_response_from_isabelle reads the    *)
(* prefix line '0\n' it takes the length-prefixed branch, reads zero       *)
(* further bytes and fails with the malformed-frame ValueError for empty   *)
(* content; the bytes that follow the prefix line are left unconsumed and  *)
(* are not parsed as this frame.                                           *)
(***************************************************************************)
C31_ZeroLength ==
    ZeroLine =>
        /\ result.outcome = "raise"
        /\ result.error = UnexpectedResponse(<<>>)
        /\ result.response.response_type = <<>>
        /\ Consumed = <<"0", NL>>
        /\ reader.pos = result.start + 2

\* '0\n' was read and raised, with a whole frame behind it left on the stream
C31_Witness ==
    /\ ZeroLine
    /\ result.start = 0
    /\ reader.pos = 2
    /\ SubSeq(reader.stream, 3, Len(reader.stream)) = Line(OK, <<>>)
    /\ result.outcome = "raise"

\* the five kinds of the protocol
FiveKinds == {OK, FINISHED, NOTE, FAILED, ERROR}

\* the kind token content begins with: its leading word
KindToken(content) == SubSeq(content, 1, RunLen(content, 1, WordChar))

\* the kind token of a log text, after the length line if it has one
LoggedKind(text) ==
    LET line == readline(text, 0, TRUE)
    IN  IF IsLengthLine(line.data)
        THEN KindToken(SubSeq(text, line.pos + 1, Len(text)))
        ELSE KindToken(text)

(***************************************************************************)
(* C32. Kind validation in the typed snapshot: get_response_from_isabelle  *)
(* raises and returns no frame whenever the kind token is a word other     *)
(* than OK, FINISHED, NOTE, FAILED, ERROR; so get_final_message never logs *)
(* or yields a frame of an unknown kind, and every frame in a list that    *)
(* execute_command returns has a kind of the enumeration.                  *)
(***************************************************************************)
C32_KindValidation ==
    /\ [](\A c \in Calls :
            LET me == calls[c]
                texts == TextsOf(client_log, c)
            IN  /\ \A i \in 1..Len(me.messages) :
                      me.messages[i].response_type \in FiveKinds
                /\ me.pc \in {"collect", "returned"} =>
                      me.password_ok.response_type \in FiveKinds
                /\ me.pc = "returned" =>
                      \A i \in 1..Len(me.result.list) :
                          me.result.list[i].response_type \in FiveKinds
                /\ \A i \in 2..Len(texts) : LoggedKind(texts[i]) \in FiveKinds)
    /\ [][\A c \in Calls :
            LET me == calls[c]
                word == KindToken(ContentAt(me.stream, me.pos, me.eof))
            IN  (/\ CallAboutToRead(c)
                 /\ calls'[c] # me
                 /\ ContentArrived(me.stream, me.pos, me.eof)
                 /\ word # <<>>
                 /\ word \notin FiveKinds) =>
                  /\ calls'[c].pc = "raised"
                  /\ calls'[c].error = NotAResponseType(word)
                  /\ calls'[c].messages = me.messages
                  /\ calls'[c].result = NoList
                  /\ client_log' = client_log]_vars

\* after the acknowledgement a frame of the unknown kind X arrived and the
\* call raised
C32_Witness ==
    /\ self_logger
    /\ calls[1].pc = "raised"
    /\ calls[1].stream = Line(OK, <<>>) \o Line(<<"X">>, <<>>)
    /\ calls[1].reads = 2
    /\ calls[1].error = NotAResponseType(<<"X">>)
    /\ Len(client_log) = 2

\* the generator has ended, by its return or by an error
Exhausted == gen \in {"done", "raised"}

(***************************************************************************)
(* C33. Termination on an ended stream: for every finite byte stream       *)
(* followed by end of stream, consuming get_final_message to exhaustion    *)
(* terminates, by ending the exchange at a terminal frame or by raising.   *)
(* Each loop iteration either consumes at least one byte or raises, and a  *)
(* read at end of stream raises, so the loop never spins on a closed       *)
(* stream.                                                                 *)
(***************************************************************************)
C33_Termination ==
    /\ eof => <>Exhausted
    /\ []((eof /\ ~Exhausted) => CanResume)
    /\ [][reads' = reads + 1 => (pos' > pos \/ gen' = "raised")]_vars
    /\ [][(AboutToRead /\ eof /\ pos = Len(stream)) =>
            /\ gen' = "raised"
            /\ error' = UnexpectedResponse(<<>>)
            /\ yielded' = yielded]_vars
    /\ [][Exhausted => UNCHANGED vars]_vars

\* two notifications and then the end of the stream: the third read raised
C33_Witness ==
    /\ eof
    /\ gen = "raised"
    /\ Kinds(yielded) = <<NOTE, NOTE>>
    /\ pos = Len(stream)
    /\ reads = 3
    /\ error = UnexpectedResponse(<<>>)

\* the typed frame b is the frame a with its body text decoded
SameFrame(a, b) ==
    /\ b.response_type = a.response_type
    /\ b.response_length = a.response_length
    /\ b.response_body = IF a.response_body = <<>> THEN JsonStr(<<>>)
                         ELSE JsonLoads(a.response_body).value

\* the generator and the call have both come to their end
BothEnded == Exhausted /\ Exited(1)

(***************************************************************************)
(* C34. The two snapshots agree on well-behaved servers: for every stream  *)
(* of well-formed frames whose first frame has kind OK and for both final  *)
(* sets, the frames yielded by the auth-gated get_final_message equal the  *)
(* first frame followed by the list execute_command builds; both stop at   *)
(* the same terminal frame and consume the same number of frames.          *)
(* This fails at a frame whose body is not JSON (C18): the generator       *)
(* yields it and the typed call raises.                                    *)
(***************************************************************************)
C34_SnapshotsAgree ==
    BothEnded =>
        LET all == <<calls[1].password_ok>> \o calls[1].result.list
        IN  /\ gen = "done" <=> calls[1].pc = "returned"
            /\ reads = calls[1].reads
            /\ pos = calls[1].pos
            /\ gen = "done" =>
                  /\ Len(yielded) = Len(all)
                  /\ \A i \in 1..Len(yielded) : SameFrame(yielded[i], all[i])

\* the rendering the claim describes: the length line if a length is
\* present, the kind, and a space and the JSON encoding of the body exactly
\* when the body is not empty
KindAloneStr(r) ==
    (IF r.response_length # None
        THEN FormatInt(r.response_length) \o <<NL>> ELSE <<>>)
    \o r.response_type
    \o (IF r.response_body # JsonStr(<<>>)
        THEN <<SP>> \o JsonDumps(r.response_body) ELSE <<>>)

(***************************************************************************)
(* C35. String rendering in the typed snapshot: str(frame) is the length   *)
(* line if a length is present, then the kind, then a single space         *)
(* followed by the JSON encoding of the body if and only if the body is    *)
(* non-empty; for an empty body the rendering is the kind alone.           *)
(* This fails: an empty body is rendered as "" after the kind.             *)
(***************************************************************************)
C35_TypedRendering ==
    self_logger =>
        \A c \in Calls :
            LET texts == TextsOf(client_log, c)
                frames == Received(c)
            IN  \A i \in 1..Len(frames) :
                    i + 1 <= Len(texts) => texts[i + 1] = KindAloneStr(frames[i])

(***************************************************************************)
(* The commands of the methods and their final sets.                       *)
(***************************************************************************)
\* the commands the claim lists as synchronous, and as asynchronous
ListedSynchronous == {"echo", "help", "purge_theories", "cancel", "shutdown"}

ListedAsynchronous == {"session_build", "session_start", "session_stop", "use_theories"}

\* a method of one of the two clients ended
ClientMethodEnded ==
    /\ method.client \in {AsyncioClient, TypedClient}
    /\ method.pc \in {"returned", "raised"}

\* the number of commands the claim gives a call that returns
ListedCommands ==
    IF /\ method.client = AsyncioClient
       /\ method.op = "use_theories"
       /\ method.session_id = NoSession
    THEN 3 ELSE 1

SessionBuildReturned ==
    /\ method.client = TypedClient
    /\ method.op = "session_build"
    /\ method.pc = "returned"

\* C37: session_build of the typed client returns one typed response per raw
\* frame, in the order of the frames, and the class of a typed response is
\* SessionBuildErrorResponse exactly when the kind of its frame is FAILED,
\* SessionBuildRegularResponse exactly when it is FINISHED, TaskOK exactly
\* when it is OK and NotificationResponse exactly when it is NOTE.
C37_SessionBuildMapping ==
    SessionBuildReturned =>
        /\ Len(method.value) = Len(method.response)
        /\ \A i \in 1..Len(method.value) :
              LET typed == method.value[i]
                  kind  == method.response[i].response_type
              IN  /\ typed.raw = method.response[i]
                  /\ typed.class = "SessionBuildErrorResponse" <=> kind = FAILED
                  /\ typed.class = "SessionBuildRegularResponse" <=> kind = FINISHED
                  /\ typed.class = "TaskOK" <=> kind = OK
                  /\ typed.class = "NotificationResponse" <=> kind = NOTE

(***************************************************************************)
(* The session of build_theory.                                            *)
(***************************************************************************)
\* build_theory returned or raised after its session_start gave a session
BuildTheoryEnded ==
    /\ method.client = Connector
    /\ method.op = "build_theory"
    /\ method.pc \in {"returned", "raised"}
    /\ method.new_session_id # NoSession

\* C38: build_theory issues session_start, then use_theories in the session
\* that was started, then session_stop of that session, and whenever it
\* returns or raises after session_start succeeded, the path where it raises
\* IsabelleTheoryError included, session_stop of the started session has
\* been issued.
C38_SessionCleanup ==
    BuildTheoryEnded =>
        method.issued = << Command("session_start", "Main"),
                           Command("use_theories", method.new_session_id),
                           Command("session_stop", method.new_session_id) >>

====
